---- MODULE Spec2Model ----
(***************************************************************************)
(* Model of the tracing instrumentation of nodejs-spanner:                 *)
(*   src/src/instrument.ts     startTrace, setSpanError, getTracer, the    *)
(*                             opt-in flag, promisify and callbackify      *)
(*   src/src/v1/instrument.ts  the earlier promisify and callbackify,      *)
(*                             built on tracer.startActiveSpan             *)
(* One action is one run-to-completion piece of JavaScript: a call of a    *)
(* wrapper, the original method calling back, a promise reaction.          *)
(* A behaviour follows one wrapped call, or the spans the client methods   *)
(* of one call chain open directly with startTrace: calls share nothing    *)
(* but optedInPII, defaultTracerProvider and the active context.           *)
(* The application has registered its context manager, as the setup of     *)
(* every test does, before the first state. A client method that has       *)
(* reported an error with setSpanError makes no further traced call.       *)
(* SpecAdapt follows the adaptation of a class by promisify, callbackify,  *)
(* promisifyAll and callbackifyAll, and a call of its adapted run method,  *)
(* through one wrapper or through two stacked ones.                        *)
(* SpecApi follows the configuration of the library, the context manager   *)
(* and the span handed out by getActiveOrNoopSpan.                         *)
(* SpecSampling follows one wrapped call under a recording tracer and the  *)
(* same call under a tracer that samples nothing. SpecOverlap follows      *)
(* wrapped calls that are in flight at the same time.                      *)
(* A span records what the instrumentation did to it; like the spans of    *)
(* the OpenTelemetry SDK it ignores setAttribute and setStatus once ended. *)
(***************************************************************************)
EXTENDS Integers, Sequences, FiniteSets

VARIABLES optedInPII, defaultTracerProvider, activeSpan, spans, calls,
          fns, prototype, lastAdapt,
          globalContextManager, enabledManagers, held, lastOpts

\* The function objects, the prototype of the adapted class, and what the last
\* call of an adapter was given and returned.
adaptVars == <<fns, prototype, lastAdapt>>

\* The context manager registered with the OpenTelemetry API, the managers
\* that have not been disabled, the span getActiveOrNoopSpan handed out with
\* what the last operation on it returned, and the options bundle last applied.
apiVars == <<globalContextManager, enabledManagers, held, lastOpts>>

vars == <<optedInPII, defaultTracerProvider, activeSpan, spans, calls, adaptVars,
          apiVars>>

\* ------------------------------------------------------------------ bounds

\* Spans the client methods of one call chain open directly with startTrace.
MaxTraces == 2
\* Times the original method may invoke the callback promisify synthesized.
MaxCbCalls == 2
\* Wrappers promisify and callbackify create in one run.
MaxWrappers == 2
\* Wrapped calls in flight at the same time.
MaxOverlap == 2

\* ------------------------------------------------------- JavaScript values

Undefined == [t |-> "undefined", v |-> ""]
Null == [t |-> "null", v |-> ""]
Str(s) == [t |-> "string", v |-> s]
\* new Error(m)
Err(m) == [t |-> "Error", v |-> m]
\* a function whose .name is n
Fn(n) == [t |-> "function", v |-> n]

\* The truthiness test of `if (x)` and `!x` on the values above.
Truthy(x) ==
    /\ x.t \notin {"undefined", "null"}
    /\ ~(x.t = "string" /\ x.v = "")

\* x.toString() throws a TypeError on undefined and null.
HasToString(x) == x.t \notin {"undefined", "null"}

\* x.toString(): a string is itself, an Error is 'Error' or 'Error: ' + message.
toString(x) ==
    IF x.t = "Error"
    THEN (IF x.v = "" THEN "Error" ELSE "Error: " \o x.v)
    ELSE x.v

\* The second argument of startTrace: nothing, the SQL text, or an object with
\* a sql field; the tests pass an object that also carries enableExtendedTracing,
\* and the configuration of a client carries a tracerProvider.
NoSql == [t |-> "undefined", sql |-> "", ext |-> "unset", tp |-> "unset"]
SqlString(s) == [t |-> "string", sql |-> s, ext |-> "unset", tp |-> "unset"]
SqlObject(s, e) == [t |-> "object", sql |-> s, ext |-> e, tp |-> "unset"]
SqlObjectWithProvider(s, p) == [t |-> "object", sql |-> s, ext |-> "unset", tp |-> p]

SqlTruthy(sql) == sql.t = "object" \/ (sql.t = "string" /\ sql.sql # "")

\* ------------------------------------------------------------ input domains

SqlTexts == {"SELECT 1"}
ExtFlags == {"unset", "true", "false"}
OverrideProviders == {"P2"}
SqlArgs ==
    {NoSql} \cup {SqlString(s) : s \in SqlTexts}
            \cup {SqlObject(s, e) : s \in SqlTexts, e \in ExtFlags}
            \cup {SqlObjectWithProvider(s, p) : s \in SqlTexts, p \in OverrideProviders}
TableArgs == {Undefined, Str("Singers")}
SpanNames == {"Database.run", "Snapshot.read"}
Providers == {"P1"}
NoProvider == "undefined"
\* The context managers the application constructs, and none registered.
Managers == {"M1", "M2"}
NoManager == "none"
GlobalTracer == "global"

\* ------------------------------------------------------------------- spans

SEMATTRS_DB_SYSTEM == "db.system"
SEMATTRS_DB_SQL_TABLE == "db.sql.table"
SEMATTRS_DB_STATEMENT == "db.statement"
AttrKeys == {SEMATTRS_DB_SYSTEM, SEMATTRS_DB_SQL_TABLE, SEMATTRS_DB_STATEMENT}

StatusUnset == [code |-> "UNSET", message |-> ""]

\* tracer.startSpan(name, {kind}) with no context argument: the parent is the
\* span of context.active(), 0 when there is none. A span is what the
\* instrumentation did to it. req keeps what the call that created it was
\* given, and within which open span of its call chain it was made.
NewSpan(name, kind, tracer, via) ==
    [name |-> name, kind |-> kind, tracer |-> tracer, via |-> via,
     parent |-> activeSpan, recording |-> TRUE,
     attributes |-> [k \in AttrKeys |-> Undefined],
     status |-> StatusUnset, endCalls |-> 0, lateOps |-> 0,
     req |-> [name |-> "", sql |-> NoSql, tableName |-> Undefined,
              within |-> 0]]

\* The span a tracer returns for the same startSpan call when its sampler is
\* off or no provider is registered: it records nothing and is not exported.
Unsampled(span) ==
    [span EXCEPT !.recording = FALSE,
                 !.attributes = [k \in AttrKeys |-> Undefined],
                 !.status = StatusUnset]

\* An ended span ignores setAttribute and setStatus; lateOps counts them.
\* A function is no attribute value: the span ignores it. A span that does
\* not record ignores both operations.
SpanSetAttribute(span, key, value) ==
    IF span.endCalls > 0
    THEN [span EXCEPT !.lateOps = @ + 1]
    ELSE IF value.t = "function" \/ ~span.recording
         THEN span
         ELSE [span EXCEPT !.attributes[key] = value]

SpanSetStatus(span, code, message) ==
    IF span.endCalls > 0
    THEN [span EXCEPT !.lateOps = @ + 1]
    ELSE IF ~span.recording
         THEN span
         ELSE [span EXCEPT !.status = [code |-> code, message |-> message]]

SpanEnd(span) == [span EXCEPT !.endCalls = @ + 1]

\* ------------------------------------------------------- src/instrument.ts

\* lines 125-132: the string itself, or the sql field of the statement.
\* A slip that would annotate every span that has SQL text.
SetStatementAlways(span, sql) ==
    IF SqlTruthy(sql)
    THEN SpanSetAttribute(span, SEMATTRS_DB_STATEMENT, Str(sql.sql))
    ELSE span

\* lines 125-132
SetStatement(span, sql) ==
    IF optedInPII /\ SqlTruthy(sql)
    THEN (IF sql.t = "string"
          THEN SpanSetAttribute(span, SEMATTRS_DB_STATEMENT, Str(sql.sql))
          ELSE SpanSetAttribute(span, SEMATTRS_DB_STATEMENT, Str(sql.sql)))
    ELSE span

\* A slip that would resolve the tracer once, when the module is loaded.
getTracerAtLoad == GlobalTracer

\* lines 89-95
getTracer ==
    IF defaultTracerProvider # NoProvider
    THEN defaultTracerProvider
    ELSE GlobalTracer

DbSystem == "google.cloud.spanner"

\* A slip that would gate the table name like the SQL text.
SetTableGated(span, tableName) ==
    IF optedInPII /\ Truthy(tableName)
    THEN SpanSetAttribute(span, SEMATTRS_DB_SQL_TABLE, tableName)
    ELSE span

\* lines 121-123
SetTable(span, tableName) ==
    IF Truthy(tableName)
    THEN SpanSetAttribute(span, SEMATTRS_DB_SQL_TABLE, tableName)
    ELSE span

\* A slip that would set db.system only on spans that carry a table name.
SetSystemWithTable(span) ==
    IF Truthy(span.req.tableName)
    THEN SpanSetAttribute(span, SEMATTRS_DB_SYSTEM, Str(DbSystem))
    ELSE span

\* line 119
SetSystem(span) == SpanSetAttribute(span, SEMATTRS_DB_SYSTEM, Str(DbSystem))

\* A slip that would end the span before returning it.
startTraceEnding(spanNameSuffix, sql, tableName) ==
    LET s0 == NewSpan("cloud.google.com/nodejs/spanner/" \o spanNameSuffix,
                      "CLIENT", getTracer, "startTrace")
        s1 == [s0 EXCEPT !.req = [name |-> spanNameSuffix, sql |-> sql,
                                  tableName |-> tableName, within |-> 0]]
    IN SpanEnd(SetStatement(SetTable(SetSystem(s1), tableName), sql))

\* lines 109-139; req keeps the arguments of the call.
startTrace(spanNameSuffix, sql, tableName) ==
    LET s0 == NewSpan("cloud.google.com/nodejs/spanner/" \o spanNameSuffix,
                      "CLIENT", getTracer, "startTrace")
        s1 == [s0 EXCEPT !.req = [name |-> spanNameSuffix, sql |-> sql,
                                  tableName |-> tableName, within |-> 0]]
    IN SetStatement(SetTable(SetSystem(s1), tableName), sql)

\* The run of one wrapper: its span, its promise, and what it did, in order.
Run(span, promise, trace) == [span |-> span, promise |-> promise, trace |-> trace]

SetStatus(run, code, message) ==
    Run(SpanSetStatus(run.span, code, message), run.promise,
        Append(run.trace, "setStatus"))

End(run) == Run(SpanEnd(run.span), run.promise, Append(run.trace, "end"))

Did(run, what) == Run(run.span, run.promise, Append(run.trace, what))

\* lines 141-150; the span is always present here.
setSpanError(run, err) ==
    IF ~Truthy(err)
    THEN run
    ELSE SetStatus(run, "ERROR", toString(err))

\* ------------------------------------------------------------------- calls

NoThrow == [t |-> "none", v |-> ""]
\* Nothing was returned: the call threw, or has not been made.
NoReturn == [t |-> "none", v |-> ""]
\* The promise a wrapper call returns: the one the original method returned,
\* or the one promisify creates. Its state is the promise field of the call.
PromiseOf(who) == [t |-> "promise", v |-> who]
NoPromise == [state |-> "none", value |-> <<>>, bare |-> FALSE]
PendingPromise == [state |-> "pending", value |-> <<>>, bare |-> FALSE]

\* resolve and reject of a promise: only the first one counts.
Resolve(promise, value, bare) ==
    IF promise.state = "pending"
    THEN [state |-> "fulfilled", value |-> value, bare |-> bare]
    ELSE promise

Reject(promise, err) ==
    IF promise.state = "pending"
    THEN [state |-> "rejected", value |-> <<err>>, bare |-> TRUE]
    ELSE promise

\* One call: of a wrapper, or of startTrace by a client method.
\*   path      how the wrapper treated the call: "promise" (promisify found no
\*             callback), "callback" (promisify found one), "traced"
\*             (callbackify popped a callback), "forward" (callbackify found none)
\*   origArgs  the arguments the original method was invoked with
\*   origCalls how many times the wrapper invoked the original method
\*   origRet   what the original method returned, where the wrapper uses it
\*   returned  what the wrapper call returned to its caller
\*   thrown    what the wrapper call threw at its caller
\*   first     the first outcome the original method reported, firstErr its
\*             error, firstArgs the arguments it gave the callback then
\*   cbArgs    the arguments the caller's callback was invoked with
\*   trace     what the wrapper did, in order
\*   fn        the function object called, 0 for a wrapper made elsewhere
NewCall(kind, impl, span) ==
    [kind |-> kind, impl |-> impl, span |-> span, pc |-> "open",
     args |-> <<>>, singular |-> FALSE, path |-> "none",
     origCalls |-> 0, origArgs |-> <<>>, origRet |-> NoReturn,
     returned |-> NoReturn, thrown |-> NoThrow, promise |-> NoPromise,
     synthCalls |-> 0, first |-> "none", firstErr |-> Undefined,
     firstArgs |-> <<>>, fn |-> 0, inner |-> 0, outer |-> 0,
     cbCalls |-> 0, cbArgs |-> <<>>, cbThrew |-> FALSE, trace |-> <<>>]

\* What the callers pass, and what the original methods report.
ArgLists ==
    {<<>>, <<Str("x")>>, <<Undefined>>, <<Str("x"), Undefined>>,
     <<Undefined, Str("x")>>, <<Fn("done"), Str("x")>>,
     <<Fn("done")>>, <<Str("x"), Fn("done")>>, <<Fn("done"), Undefined>>}
ErrVals == {Err("boom"), Err(""), Str("timeout"), Str(""), Undefined}
ThrowVals == {Err("thrown")}
ResultLists == {<<>>, <<Str("r1")>>, <<Str("r1"), Str("r2")>>}
CbArgLists == {<<e>> : e \in ErrVals} \cup {<<Null>> \o r : r \in ResultLists}
SyncCbs == {<<>>} \cup {<<a>> : a \in CbArgLists}
OriginalName == "run"
\* The functions given to startTrace, named after what they return.
WorkFns == {Fn("returnsUndefined"), Fn("returnsValue"), Fn("returnsPromise")}
WorkReturn(work) ==
    CASE work.v = "returnsUndefined" -> Undefined
      [] work.v = "returnsValue" -> Str("value")
      [] work.v = "returnsPromise" -> PromiseOf("work")
\* What a callback-style original method returns.
OriginalReturns == {Undefined, Str("returned")}

\* ---------------------------------------------------- promisify (both files)

\* lines 259-271 (v1: 186-198): from the end, skip undefined, stop at the first
\* other argument. last is 1-based, 0 when the loop ran off the front.
RECURSIVE ScanLast(_, _)
ScanLast(args, last) ==
    IF last < 1
    THEN [callback |-> FALSE, last |-> 0]
    ELSE IF args[last].t = "undefined"
         THEN ScanLast(args, last - 1)
         ELSE IF args[last].t # "function"
              THEN [callback |-> FALSE, last |-> last]
              ELSE [callback |-> TRUE, last |-> last]

\* tracer.startActiveSpan of v1: the module's tracer, no startTrace.
v1StartActiveSpan(name) == NewSpan(name, "INTERNAL", GlobalTracer, "startActiveSpan")

\* A slip that would resolve with the first value whenever singular is set.
ResolveWithFirst(run, singular, callbackArgs) ==
    IF singular /\ Len(callbackArgs) >= 1
    THEN Run(run.span, Resolve(run.promise, <<callbackArgs[1]>>, TRUE),
             Append(run.trace, "resolve"))
    ELSE Run(run.span, Resolve(run.promise, callbackArgs, FALSE),
             Append(run.trace, "resolve"))

\* lines 298-302 (v1: 229-233)
ResolveWith(run, singular, callbackArgs) ==
    IF singular /\ Len(callbackArgs) = 1
    THEN Run(run.span, Resolve(run.promise, <<callbackArgs[1]>>, TRUE),
             Append(run.trace, "resolve"))
    ELSE Run(run.span, Resolve(run.promise, callbackArgs, FALSE),
             Append(run.trace, "resolve"))

RejectWith(run, err) ==
    Run(run.span, Reject(run.promise, err), Append(run.trace, "reject"))

\* A slip that would mark the span before looking at err.
promisifyCallbackMarksAll(run, singular, args) ==
    LET err == IF args = <<>> THEN Undefined ELSE Head(args)
        callbackArgs == IF args = <<>> THEN <<>> ELSE Tail(args)
        marked == SetStatus(run, "ERROR", "failed")
    IN IF Truthy(err)
       THEN RejectWith(End(marked), err)
       ELSE End(ResolveWith(marked, singular, callbackArgs))

\* src/instrument.ts lines 288-304: the callback promisify appends.
promisifyCallback(run, singular, args) ==
    LET err == IF args = <<>> THEN Undefined ELSE Head(args)
        callbackArgs == IF args = <<>> THEN <<>> ELSE Tail(args)
    IN IF Truthy(err)
       THEN RejectWith(End(setSpanError(run, err)), err)
       ELSE End(ResolveWith(run, singular, callbackArgs))

\* src/v1/instrument.ts lines 215-234
v1PromisifyCallback(run, singular, args) ==
    LET err == IF args = <<>> THEN Undefined ELSE Head(args)
        callbackArgs == IF args = <<>> THEN <<>> ELSE Tail(args)
    IN IF Truthy(err)
       THEN RejectWith(End(SetStatus(run, "ERROR", toString(err))), err)
       ELSE ResolveWith(End(run), singular, callbackArgs)

SynthCallback(impl, run, singular, args) ==
    IF impl = "main"
    THEN promisifyCallback(run, singular, args)
    ELSE v1PromisifyCallback(run, singular, args)

\* originalMethod.apply(this, args) inside the promise executor: the original
\* may invoke the callback before it returns, and may throw; the Promise
\* constructor turns a throw into reject.
OriginalInExecutor(impl, run, singular, sync, throws) ==
    LET r1 == IF sync = <<>> THEN run
              ELSE SynthCallback(impl, run, singular, sync[1])
    IN IF throws = NoThrow
       THEN r1
       ELSE RejectWith(r1, throws)

\* The first outcome the original reports in its synchronous part.
FirstOf(sync, throws) ==
    IF sync # <<>>
    THEN (IF sync[1] # <<>> /\ Truthy(sync[1][1])
          THEN [first |-> "err", firstErr |-> sync[1][1], firstArgs |-> sync[1]]
          ELSE [first |-> "ok", firstErr |-> Undefined, firstArgs |-> sync[1]])
    ELSE IF throws # NoThrow
         THEN [first |-> "throw", firstErr |-> throws, firstArgs |-> <<>>]
         ELSE [first |-> "none", firstErr |-> Undefined, firstArgs |-> <<>>]

\* A slip that would forward the arguments without the trailing undefined.
ForwardPeeled(args, last) == SubSeq(args, 1, last)

\* line 270 (v1: 197): originalMethod.apply(this, arguments)
ForwardArguments(args, last) == args

\* A slip that would drop every undefined argument.
PeelEveryUndefined(args, last) ==
    SelectSeq(SubSeq(args, 1, last), LAMBDA a : a.t # "undefined")

\* line 274 (v1: 201): slice.call(arguments, 0, last + 1), last 1-based here.
PeelTrailingUndefined(args, last) == SubSeq(args, 1, last)

\* src/instrument.ts lines 259-308, src/v1/instrument.ts lines 183-237: the
\* wrapper once it holds its span, span0.
promisifyWrapperOn(span0, impl, singular, args, sync, throws, ret) ==
    LET scan == ScanLast(args, Len(args))
        call0 == [NewCall("promisify", impl, Len(spans) + 1) EXCEPT
                    !.args = args, !.singular = singular]
        fst == FirstOf(sync, throws)
    IN IF scan.callback
       THEN \* return originalMethod.apply(this, arguments)
            [span |-> span0,
             call |-> [call0 EXCEPT
                         !.path = "callback",
                         !.origCalls = 1,
                         !.origArgs = ForwardArguments(args, scan.last),
                         !.origRet = IF throws = NoThrow THEN ret ELSE NoReturn,
                         !.returned = IF throws = NoThrow THEN ret ELSE NoReturn,
                         !.thrown = throws,
                         !.first = fst.first,
                         !.firstErr = fst.firstErr,
                         !.firstArgs = fst.firstArgs,
                         !.cbCalls = Len(sync),
                         !.cbArgs = IF sync = <<>> THEN <<>> ELSE sync[1],
                         !.pc = IF fst.first = "none" THEN "running" ELSE "done"]]
       ELSE LET peeled == PeelTrailingUndefined(args, scan.last)
                run == OriginalInExecutor(impl, Run(span0, PendingPromise, <<>>),
                                          singular, sync, throws)
            IN [span |-> run.span,
                call |-> [call0 EXCEPT
                            !.path = "promise",
                            !.origCalls = 1,
                            !.origArgs = Append(peeled, Fn("synthesized")),
                            !.returned = PromiseOf("promisify"),
                            !.promise = run.promise,
                            !.trace = run.trace,
                            !.synthCalls = Len(sync),
                            !.first = fst.first,
                            !.firstErr = fst.firstErr,
                            !.firstArgs = fst.firstArgs,
                            !.pc = IF fst.first = "none" THEN "running" ELSE "done"]]

\* A slip that would name the span after the wrapper, not after its target.
promisifySpanOfWrapper(impl) ==
    IF impl = "main"
    THEN startTrace("Spanner." \o "wrapper", NoSql, Undefined)
    ELSE v1StartActiveSpan("cloud.google.com/nodejs/Spanner."
                           \o "wrapper" \o ".promisify")

\* src/instrument.ts line 254, src/v1/instrument.ts lines 177-179: the span
\* the wrapper starts.
promisifySpan(impl) ==
    IF impl = "main"
    THEN startTrace("Spanner." \o OriginalName, NoSql, Undefined)
    ELSE v1StartActiveSpan("cloud.google.com/nodejs/Spanner."
                           \o OriginalName \o ".promisify")

\* src/instrument.ts lines 254-308, src/v1/instrument.ts lines 177-240.
promisifyWrapper(impl, singular, args, sync, throws, ret) ==
    promisifyWrapperOn(promisifySpan(impl), impl, singular, args, sync,
                       throws, ret)

\* ----------------------------------------------------------------- actions

SetTracerProvider(p) ==
    /\ defaultTracerProvider' = p
    /\ UNCHANGED <<adaptVars, apiVars, optedInPII, activeSpan, spans, calls>>

OptInForSQLStatementOnSpans ==
    /\ optedInPII' = TRUE
    /\ UNCHANGED <<adaptVars, apiVars, defaultTracerProvider, activeSpan, spans, calls>>

OptOutOfSQLStatementOnSpans ==
    /\ optedInPII' = FALSE
    /\ UNCHANGED <<adaptVars, apiVars, defaultTracerProvider, activeSpan, spans, calls>>

\* A client method opens a span with startTrace and keeps it.
StartTraceCall(name, sql, tableName) ==
    /\ calls = <<>>
    /\ spans' = Append(spans, startTrace(name, sql, tableName))
    /\ calls' = Append(calls, NewCall("startTrace", "main", Len(spans) + 1))
    /\ UNCHANGED <<adaptVars, apiVars, optedInPII, defaultTracerProvider, activeSpan>>

\* What startTrace returns: the span it created.
TheSpan == [t |-> "span", v |-> "created"]

\* startTrace(name, opts, work), as the tests call it: the third argument is
\* a function to run with the span, no table name is given. Of this call,
\* args holds the function and cbCalls how many times it was invoked.
StartTraceWithWork(name, opts, work) ==
    /\ calls = <<>>
    /\ spans' = Append(spans, [startTrace(name, opts, work) EXCEPT
                                 !.req.tableName = Undefined])
    /\ calls' = Append(calls, [NewCall("startTrace", "main", Len(spans) + 1)
                                 EXCEPT !.args = <<work>>,
                                        !.returned = TheSpan])
    /\ UNCHANGED <<adaptVars, apiVars, optedInPII, defaultTracerProvider, activeSpan>>

\* The application runs the call chain inside a span of its own, with
\* tracer.startActiveSpan('test', async span => {...}). The span is active in
\* the callback when a context manager is registered; with none,
\* context.active() stays the root context.
AppStartActiveSpan ==
    /\ activeSpan = 0
    /\ spans = <<>>
    /\ calls = <<>>
    /\ spans' = <<NewSpan("test", "INTERNAL", "app", "app")>>
    /\ activeSpan' = IF globalContextManager # NoManager THEN 1 ELSE 0
    /\ UNCHANGED <<adaptVars, apiVars, optedInPII, defaultTracerProvider, calls>>

\* While the span of call c is open, its call chain calls startTrace again:
\* a client method that holds a span invokes another traced method.
NestedStartTraceCall(c, name) ==
    /\ calls[c].kind = "startTrace"
    /\ calls[c].pc = "open"
    /\ Len(calls) < MaxTraces
    /\ spans' = Append(spans, [startTrace(name, NoSql, Undefined) EXCEPT
                                 !.req.within = calls[c].span])
    /\ calls' = Append(calls, NewCall("startTrace", "main", Len(spans) + 1))
    /\ UNCHANGED <<adaptVars, apiVars, optedInPII, defaultTracerProvider, activeSpan>>

\* A client method reports err with setSpanError(span, err): on the span it
\* opened, or on no span (line 142: !span returns at once). Of this call,
\* first tells what was passed for the span and firstErr is err.
ClientSetSpanError(c, withSpan, err) ==
    /\ calls[c].kind = "startTrace"
    /\ calls[c].pc = "open"
    /\ calls[c].first = "none"
    /\ spans' = IF withSpan
                THEN [spans EXCEPT ![calls[c].span] =
                        setSpanError(Run(@, NoPromise, <<>>), err).span]
                ELSE spans
    /\ calls' = [calls EXCEPT ![c].first = IF withSpan THEN "span" ELSE "undefined",
                              ![c].firstErr = err]
    /\ UNCHANGED <<adaptVars, apiVars, optedInPII, defaultTracerProvider, activeSpan>>

\* The client method that opened the span ends it.
CallerEndsSpan(c) ==
    /\ calls[c].kind = "startTrace"
    /\ calls[c].pc = "open"
    /\ spans' = [spans EXCEPT ![calls[c].span] = SpanEnd(@)]
    /\ calls' = [calls EXCEPT ![c].pc = "done"]
    /\ UNCHANGED <<adaptVars, apiVars, optedInPII, defaultTracerProvider, activeSpan>>

\* A caller invokes a promisify-wrapped method.
PromisifyCall(impl, singular, args, sync, throws, ret) ==
    /\ calls = <<>>
    /\ LET r == promisifyWrapper(impl, singular, args, sync, throws, ret)
       IN /\ spans' = Append(spans, r.span)
          /\ calls' = Append(calls, r.call)
    /\ UNCHANGED <<adaptVars, apiVars, optedInPII, defaultTracerProvider, activeSpan>>

\* The callback promisify gave the original method of call c runs with args:
\* the spans and calls after it.
\* A slip that would keep the span of the latest call in one place shared
\* by all calls.
synthCallbackInvokedOnCurrent(ss, cs, c, args) ==
    LET call == cs[c]
        run == SynthCallback(call.impl,
                             Run(ss[Len(ss)], call.promise, call.trace),
                             call.singular, args)
        isErr == args # <<>> /\ Truthy(args[1])
    IN [spans |-> [ss EXCEPT ![Len(ss)] = run.span],
        calls |-> [cs EXCEPT
                         ![c].promise = run.promise,
                         ![c].trace = run.trace,
                         ![c].synthCalls = @ + 1,
                         ![c].first = IF @ = "none"
                                      THEN (IF isErr THEN "err" ELSE "ok")
                                      ELSE @,
                         ![c].firstErr = IF call.first = "none" /\ isErr
                                         THEN args[1] ELSE @,
                         ![c].firstArgs = IF call.first = "none" THEN args ELSE @,
                         ![c].pc = "done"]]

synthCallbackInvoked(ss, cs, c, args) ==
    LET call == cs[c]
        run == SynthCallback(call.impl,
                             Run(ss[call.span], call.promise, call.trace),
                             call.singular, args)
        isErr == args # <<>> /\ Truthy(args[1])
    IN [spans |-> [ss EXCEPT ![call.span] = run.span],
        calls |-> [cs EXCEPT
                         ![c].promise = run.promise,
                         ![c].trace = run.trace,
                         ![c].synthCalls = @ + 1,
                         ![c].first = IF @ = "none"
                                      THEN (IF isErr THEN "err" ELSE "ok")
                                      ELSE @,
                         ![c].firstErr = IF call.first = "none" /\ isErr
                                         THEN args[1] ELSE @,
                         ![c].firstArgs = IF call.first = "none" THEN args ELSE @,
                         ![c].pc = "done"]]

\* Later, the original method invokes the callback promisify gave it.
OriginalInvokesCallback(c, args) ==
    /\ calls[c].kind = "promisify"
    /\ calls[c].inner = 0
    /\ calls[c].path = "promise"
    /\ calls[c].synthCalls < MaxCbCalls
    /\ LET r == synthCallbackInvoked(spans, calls, c, args)
       IN spans' = r.spans /\ calls' = r.calls
    /\ UNCHANGED <<adaptVars, apiVars, optedInPII, defaultTracerProvider, activeSpan>>

\* Later, the original method invokes the callback the caller passed through
\* promisify.
callerCallbackInvoked(cs, c, args) ==
    [cs EXCEPT
        ![c].cbCalls = @ + 1,
        ![c].cbArgs = args,
        ![c].first = IF args # <<>> /\ Truthy(args[1]) THEN "err" ELSE "ok",
        ![c].firstErr = IF args # <<>> /\ Truthy(args[1]) THEN args[1] ELSE @,
        ![c].firstArgs = args,
        ![c].pc = "done"]

OriginalInvokesCallerCallback(c, args) ==
    /\ calls[c].kind = "promisify"
    /\ calls[c].inner = 0
    /\ calls[c].path = "callback"
    /\ calls[c].pc = "running"
    /\ calls' = callerCallbackInvoked(calls, c, args)
    /\ UNCHANGED <<adaptVars, apiVars, optedInPII, defaultTracerProvider, activeSpan, spans>>

\* ------------------------------------------------- callbackify (both files)

\* What the original's promise settles with: fulfilled with an array or with
\* one value that is no array, or rejected.
Fulfilments ==
    {[state |-> "fulfilled", value |-> r, bare |-> FALSE] : r \in ResultLists}
    \cup {[state |-> "fulfilled", value |-> <<Str("r1")>>, bare |-> TRUE]}
Rejections == {[state |-> "rejected", value |-> <<e>>, bare |-> TRUE] : e \in ErrVals}

\* src/instrument.ts lines 169-190, src/v1/instrument.ts lines 83-114: the
\* synchronous part of the wrapper.
\* A slip that would take any last argument that is not undefined for the
\* callback.
LastIsDefined(args) == args # <<>> /\ args[Len(args)].t # "undefined"

\* line 170 (v1: 84): typeof arguments[arguments.length - 1] === 'function'
LastIsFunction(args) == args # <<>> /\ args[Len(args)].t = "function"

callbackifyWrapper(impl, args, throws) ==
    LET call0 == [NewCall("callbackify", impl, 0) EXCEPT
                    !.args = args, !.thrown = throws, !.origCalls = 1,
                    !.first = IF throws = NoThrow THEN "none" ELSE "throw",
                    !.firstErr = IF throws = NoThrow THEN Undefined ELSE throws,
                    !.promise = IF throws = NoThrow THEN PendingPromise ELSE NoPromise,
                    !.pc = IF throws = NoThrow THEN "running" ELSE "done"]
    IN IF ~LastIsFunction(args)
       THEN \* return originalMethod.apply(this, arguments)
            [traced |-> FALSE,
             call |-> [call0 EXCEPT
                         !.path = "forward", !.origArgs = args,
                         !.origRet = IF throws = NoThrow
                                     THEN PromiseOf("original") ELSE NoReturn,
                         !.returned = IF throws = NoThrow
                                      THEN PromiseOf("original") ELSE NoReturn]]
       ELSE LET cb == args[Len(args)]
                rest == SubSeq(args, 1, Len(args) - 1)
                span == IF impl = "main"
                        THEN startTrace("Spanner." \o cb.v, NoSql, Undefined)
                        ELSE v1StartActiveSpan("cloud.google.com/nodejs/Spanner."
                                               \o cb.v \o ".callbackify")
            IN [traced |-> TRUE,
                span |-> span,
                call |-> [call0 EXCEPT
                            !.path = "traced", !.origArgs = rest,
                            !.origRet = IF throws = NoThrow
                                        THEN PromiseOf("original") ELSE NoReturn,
                            !.returned = IF throws = NoThrow
                                         THEN Undefined ELSE NoReturn,
                            !.span = Len(spans) + 1]]

\* cb(...): the caller's callback is invoked.
InvokeCb(call, args) == [call EXCEPT !.cbCalls = @ + 1, !.cbArgs = args]

\* A slip that would hand the callback the result without spreading it, the
\* way options.singular of the original library did.
callbackifyOnFulfilledFirstOnly(run, res) ==
    [run |-> Did(End(run), "cb"), cb |-> TRUE,
     cbArgs |-> IF res.value = <<>> THEN <<Null>> ELSE <<Null, res.value[1]>>]

\* src/instrument.ts lines 179-183 (v1: 98-102)
callbackifyOnFulfilled(run, res) ==
    LET arr == IF res.bare THEN <<res.value[1]>> ELSE res.value
    IN [run |-> Did(End(run), "cb"), cb |-> TRUE, cbArgs |-> <<Null>> \o arr]

\* A slip that would report the rejection only from a span that records.
callbackifyOnRejectedWhenRecording(run, err) ==
    IF run.span.recording
    THEN [run |-> Did(End(setSpanError(run, err)), "cb"), cb |-> TRUE,
          cbArgs |-> <<err>>]
    ELSE [run |-> End(run), cb |-> FALSE, cbArgs |-> <<>>]

\* src/instrument.ts lines 184-188
callbackifyOnRejected(run, err) ==
    [run |-> Did(End(setSpanError(run, err)), "cb"), cb |-> TRUE, cbArgs |-> <<err>>]

\* src/v1/instrument.ts lines 103-110: err.toString() throws on undefined and
\* null, and the reaction stops there.
v1CallbackifyOnRejected(run, err) ==
    IF ~HasToString(err)
    THEN [run |-> run, cb |-> FALSE, cbArgs |-> <<>>]
    ELSE [run |-> Did(End(SetStatus(run, "ERROR", toString(err))), "cb"),
          cb |-> TRUE, cbArgs |-> <<err>>]

callbackifyReaction(impl, run) ==
    IF run.promise.state = "fulfilled"
    THEN callbackifyOnFulfilled(run, run.promise)
    ELSE IF impl = "main"
         THEN callbackifyOnRejected(run, run.promise.value[1])
         ELSE v1CallbackifyOnRejected(run, run.promise.value[1])

\* A caller invokes a callbackify-wrapped method.
CallbackifyCall(impl, args, throws) ==
    /\ calls = <<>>
    /\ LET r == callbackifyWrapper(impl, args, throws)
       IN /\ spans' = IF r.traced THEN Append(spans, r.span) ELSE spans
          /\ calls' = Append(calls, r.call)
    /\ UNCHANGED <<adaptVars, apiVars, optedInPII, defaultTracerProvider, activeSpan>>

\* The promise the original method of call c returned settles with outcome.
originalSettled(cs, c, outcome) ==
    [cs EXCEPT
        ![c].promise = outcome,
        ![c].first = IF outcome.state = "fulfilled" THEN "ok" ELSE "err",
        ![c].firstErr = IF outcome.state = "fulfilled"
                        THEN Undefined ELSE outcome.value[1],
        ![c].pc = IF cs[c].path = "traced" THEN "settled" ELSE "done"]

\* The promise the original method returned settles.
OriginalSettles(c, outcome) ==
    /\ calls[c].kind = "callbackify"
    /\ calls[c].inner = 0
    /\ calls[c].promise.state = "pending"
    /\ calls' = originalSettled(calls, c, outcome)
    /\ UNCHANGED <<adaptVars, apiVars, optedInPII, defaultTracerProvider, activeSpan, spans>>

\* The reaction of call c runs: the spans and calls after it. The handlers
\* are the two arguments of one then(): what the caller's callback throws
\* rejects the promise then() returns, which nobody holds, and the rejection
\* handler is not run for it.
reactionRun(ss, cs, c, cbThrows) ==
    LET call == cs[c]
        r == callbackifyReaction(call.impl,
                                 Run(ss[call.span], call.promise, call.trace))
        call1 == [call EXCEPT !.trace = r.run.trace, !.pc = "done"]
    IN [spans |-> [ss EXCEPT ![call.span] = r.run.span],
        calls |-> [cs EXCEPT
                     ![c] = IF r.cb
                            THEN [InvokeCb(call1, r.cbArgs) EXCEPT
                                    !.cbThrew = cbThrows]
                            ELSE call1]]

\* The reaction callbackify registered with then() runs.
CallbackifyReaction(c, cbThrows) ==
    /\ calls[c].kind = "callbackify"
    /\ calls[c].outer = 0
    /\ calls[c].pc = "settled"
    /\ LET r == reactionRun(spans, calls, c, cbThrows)
       IN spans' = r.spans /\ calls' = r.calls
    /\ UNCHANGED <<adaptVars, apiVars, optedInPII, defaultTracerProvider, activeSpan>>

\* ------------------------------------- promisify, callbackify, and the ...All

\* A property name is the sequence of its pieces, <<"run", "Stream">> for
\* runStream, so that the tests of the regular expressions can be computed:
\* constructor, run, runStream, _flush, close, batchSize, request_,
\* getStreamInfo, promise.
PropOrder ==
    << <<"constructor">>, <<"run">>, <<"run", "Stream">>, <<"_", "flush">>,
       <<"close">>, <<"batch", "Size">>, <<"request", "_">>,
       <<"get", "Stream", "Info">>, <<"promise">> >>
PropNames == {PropOrder[i] : i \in 1..Len(PropOrder)}
\* The value of a property that is no function.
NotFunction == 0

\* A function as written in a class: no marker on it.
Original(name) ==
    [name |-> name, layer |-> "original", wraps |-> 0, impl |-> "none",
     singular |-> FALSE, promisified_ |-> FALSE, callbackified_ |-> FALSE]

InitialFns ==
    << Original(<<"constructor">>), Original(<<"run">>),
       Original(<<"run", "Stream">>), Original(<<"_", "flush">>),
       Original(<<"close">>), Original(<<"request", "_">>),
       Original(<<"get", "Stream", "Info">>), Original(<<"promise">>) >>

\* Class.prototype: every own property but batchSize is a function.
InitialPrototype ==
    [n \in PropNames |->
        IF \E i \in 1..Len(InitialFns) : InitialFns[i].name = n
        THEN CHOOSE i \in 1..Len(InitialFns) : InitialFns[i].name = n
        ELSE NotFunction]

NoAdapt == [op |-> "none", arg |-> 0, result |-> 0, exclude |-> {}, again |-> FALSE]

\* A slip that would forget wrapper.promisified_ = true (wrapper.callbackified_).
WrapperUnmarked(layer, f, singular, impl) ==
    [name |-> <<"wrapper">>, layer |-> layer, wraps |-> f, impl |-> impl,
     singular |-> singular, promisified_ |-> FALSE, callbackified_ |-> FALSE]

\* lines 169-191 and 254-310: the wrapper is a new function that carries the
\* marker of its adapter only, whatever markers the function it wraps carries.
Wrapper(layer, f, singular, impl) ==
    [name |-> <<"wrapper">>, layer |-> layer, wraps |-> f, impl |-> impl,
     singular |-> singular,
     promisified_ |-> (layer = "promisify"),
     callbackified_ |-> (layer = "callbackify")]

\* A slip that would wrap without looking at the marker.
promisifyUnguarded(fs, f, singular, impl) ==
    [fns |-> Append(fs, Wrapper("promisify", f, singular, impl)),
     result |-> Len(fs) + 1]

\* lines 241-312 (v1: 165-244)
promisify(fs, f, singular, impl) ==
    IF fs[f].promisified_
    THEN [fns |-> fs, result |-> f]
    ELSE [fns |-> Append(fs, Wrapper("promisify", f, singular, impl)),
          result |-> Len(fs) + 1]

\* lines 163-193 (v1: 77-117)
callbackify(fs, f, impl) ==
    IF fs[f].callbackified_
    THEN [fns |-> fs, result |-> f]
    ELSE [fns |-> Append(fs, Wrapper("callbackify", f, FALSE, impl)),
          result |-> Len(fs) + 1]

HasPiece(name, pieces) == \E i \in 1..Len(name) : name[i] \in pieces

\* line 217: !/^_|(Stream|_)|^constructor$/.test(methodName)
Callbackifyable(name) ==
    ~(name[1] = "_" \/ HasPiece(name, {"Stream", "_"}) \/ name = <<"constructor">>)

\* A slip that would look for Stream at the end of the name only.
PromisableStreamSuffix(name) ==
    ~(\/ name[1] = "_"
      \/ name[Len(name)] = "Stream"
      \/ HasPiece(name, {"_"})
      \/ name[Len(name)] = "promise"
      \/ name = <<"constructor">>)

\* line 336: !/(^_|(Stream|_)|promise$)|^constructor$/.test(methodName)
Promisable(name) ==
    ~(\/ name[1] = "_"
      \/ HasPiece(name, {"Stream", "_"})
      \/ name[Len(name)] = "promise"
      \/ name = <<"constructor">>)

\* lines 212-220 and 331-339: the filter over the own property names.
Methods(proto, exclude, layer) ==
    SelectSeq(PropOrder,
              LAMBDA n : /\ n \notin exclude
                         /\ proto[n] # NotFunction
                         /\ IF layer = "promisify"
                            THEN Promisable(n) ELSE Callbackifyable(n))

\* lines 222-227 and 341-346: methods.forEach, one method after the other.
RECURSIVE AdaptEach(_, _, _, _, _, _)
AdaptEach(methods, fs, proto, layer, singular, impl) ==
    IF methods = <<>>
    THEN [fns |-> fs, prototype |-> proto]
    ELSE LET methodName == Head(methods)
             originalMethod == proto[methodName]
             marked == IF layer = "promisify"
                       THEN fs[originalMethod].promisified_
                       ELSE fs[originalMethod].callbackified_
             r == IF layer = "promisify"
                  THEN promisify(fs, originalMethod, singular, impl)
                  ELSE callbackify(fs, originalMethod, impl)
         IN IF marked
            THEN AdaptEach(Tail(methods), fs, proto, layer, singular, impl)
            ELSE AdaptEach(Tail(methods), r.fns,
                           [proto EXCEPT ![methodName] = r.result],
                           layer, singular, impl)

\* lines 325-347 (v1: 257-279)
promisifyAll(fs, proto, exclude, singular, impl) ==
    AdaptEach(Methods(proto, exclude, "promisify"), fs, proto,
              "promisify", singular, impl)

\* lines 205-228 (v1: 129-152)
callbackifyAll(fs, proto, exclude, impl) ==
    AdaptEach(Methods(proto, exclude, "callbackify"), fs, proto,
              "callbackify", FALSE, impl)

Wrappers(fs) == {i \in 1..Len(fs) : fs[i].layer # "original"}

\* What the adapter call was given and returned. again tells that it was given
\* what the same adapter had produced: a wrapper of its own kind, or a class all
\* of whose selected methods are wrappers of its own kind.
Adapted(op, arg, result, exclude) ==
    LET layer == IF op \in {"promisify", "promisifyAll"}
                 THEN "promisify" ELSE "callbackify"
        methods == Methods(prototype, exclude, layer)
    IN [op |-> op, arg |-> arg, result |-> result, exclude |-> exclude,
        again |-> IF arg # 0
                  THEN fns[arg].layer = layer
                  ELSE \A i \in 1..Len(methods) :
                          fns[prototype[methods[i]]].layer = layer]

\* promisify(f, {singular}) is called on a function object. Classes are adapted
\* when their module is loaded, before any of their methods is called.
Promisify(f, singular, impl) ==
    /\ calls = <<>>
    /\ LET r == promisify(fns, f, singular, impl)
       IN /\ Cardinality(Wrappers(r.fns)) <= MaxWrappers
          /\ fns' = r.fns
          /\ lastAdapt' = Adapted("promisify", f, r.result, {})
    /\ UNCHANGED <<apiVars, prototype, optedInPII, defaultTracerProvider, activeSpan,
                   spans, calls>>

Callbackify(f, impl) ==
    /\ calls = <<>>
    /\ LET r == callbackify(fns, f, impl)
       IN /\ Cardinality(Wrappers(r.fns)) <= MaxWrappers
          /\ fns' = r.fns
          /\ lastAdapt' = Adapted("callbackify", f, r.result, {})
    /\ UNCHANGED <<apiVars, prototype, optedInPII, defaultTracerProvider, activeSpan,
                   spans, calls>>

PromisifyAll(exclude, singular, impl) ==
    /\ calls = <<>>
    /\ LET r == promisifyAll(fns, prototype, exclude, singular, impl)
       IN /\ Cardinality(Wrappers(r.fns)) <= MaxWrappers
          /\ fns' = r.fns
          /\ prototype' = r.prototype
          /\ lastAdapt' = Adapted("promisifyAll", 0, 0, exclude)
    /\ UNCHANGED <<apiVars, optedInPII, defaultTracerProvider, activeSpan, spans, calls>>

CallbackifyAll(exclude, impl) ==
    /\ calls = <<>>
    /\ LET r == callbackifyAll(fns, prototype, exclude, impl)
       IN /\ Cardinality(Wrappers(r.fns)) <= MaxWrappers
          /\ fns' = r.fns
          /\ prototype' = r.prototype
          /\ lastAdapt' = Adapted("callbackifyAll", 0, 0, exclude)
    /\ UNCHANGED <<apiVars, optedInPII, defaultTracerProvider, activeSpan, spans, calls>>

\* A caller invokes function object g, a wrapper around the original method
\* named run.
CallAdapted(g, args, sync, throws, ret) ==
    /\ calls = <<>>
    /\ fns[g].layer # "original"
    /\ fns[fns[g].wraps] = Original(<<OriginalName>>)
    /\ IF fns[g].layer = "promisify"
       THEN LET r == promisifyWrapper(fns[g].impl, fns[g].singular, args,
                                      sync, throws, ret)
            IN /\ spans' = Append(spans, r.span)
               /\ calls' = Append(calls, [r.call EXCEPT !.fn = g])
       ELSE LET r == callbackifyWrapper(fns[g].impl, args, throws)
            IN /\ spans' = IF r.traced THEN Append(spans, r.span) ELSE spans
               /\ calls' = Append(calls, [r.call EXCEPT !.fn = g])
    /\ UNCHANGED <<adaptVars, apiVars, optedInPII, defaultTracerProvider, activeSpan>>

\* The function f wraps, through every layer.
RECURSIVE Root(_, _)
\* A wrapper whose original method is itself a wrapper, around run, is
\* called: the outer wrapper runs and, before it returns, applies the inner
\* one to the arguments it passes on. calls[1] is the outer invocation,
\* calls[2] the inner one.
CallStacked(g, args) ==
    /\ calls = <<>>
    /\ fns[g].layer # "original"
    /\ fns[g].wraps # 0
    /\ fns[fns[g].wraps].layer # "original"
    /\ fns[fns[fns[g].wraps].wraps] = Original(<<OriginalName>>)
    /\ LET h == fns[g].wraps
       IN IF fns[g].layer = "callbackify"
          THEN \* callbackify line 177 (or 171) applies the promisify wrapper
               LET o == callbackifyWrapper(fns[g].impl, args, NoThrow)
                   spans1 == IF o.traced THEN Append(spans, o.span) ELSE spans
                   i == promisifyWrapper(fns[h].impl, fns[h].singular,
                                         o.call.origArgs, <<>>, NoThrow,
                                         Undefined)
               IN /\ spans' = Append(spans1, i.span)
                  /\ calls' =
                       << [o.call EXCEPT
                             !.fn = g, !.inner = 2,
                             !.origRet = i.call.returned,
                             !.returned = IF o.traced THEN @
                                          ELSE i.call.returned],
                          [i.call EXCEPT !.fn = h, !.outer = 1,
                                         !.span = Len(spans1) + 1] >>
          ELSE \* promisify line 306 (or 270) applies the callbackify wrapper
               LET o0 == promisifyWrapper(fns[g].impl, fns[g].singular, args,
                                          <<>>, NoThrow, Undefined)
                   i == callbackifyWrapper(fns[h].impl, o0.call.origArgs,
                                           NoThrow)
                   o == promisifyWrapper(fns[g].impl, fns[g].singular, args,
                                         <<>>, NoThrow, i.call.returned)
                   spans1 == Append(spans, o.span)
               IN /\ spans' = IF i.traced THEN Append(spans1, i.span)
                                          ELSE spans1
                  /\ calls' =
                       << [o.call EXCEPT !.fn = g, !.inner = 2],
                          [i.call EXCEPT
                             !.fn = h, !.outer = 1,
                             !.span = IF i.traced THEN Len(spans1) + 1
                                      ELSE 0] >>
    /\ UNCHANGED <<adaptVars, apiVars, optedInPII, defaultTracerProvider, activeSpan>>

\* The promise the inner promisify wrapper returned has settled: it is the
\* promise the outer callbackify wrapper called then() on, or returned.
StackedSettles(c) ==
    /\ calls[c].kind = "callbackify"
    /\ calls[c].inner # 0
    /\ calls[c].promise.state = "pending"
    /\ calls[calls[c].inner].promise.state \in {"fulfilled", "rejected"}
    /\ calls' = originalSettled(calls, c, calls[calls[c].inner].promise)
    /\ UNCHANGED <<adaptVars, apiVars, optedInPII, defaultTracerProvider, activeSpan,
                   spans>>

\* The reaction of the inner callbackify wrapper runs: the callback it
\* invokes is the last argument the outer promisify wrapper passed on, the
\* caller's callback or the synthesized one, which runs before cb returns.
StackedReaction(c) ==
    /\ calls[c].kind = "callbackify"
    /\ calls[c].outer # 0
    /\ calls[c].pc = "settled"
    /\ LET r == reactionRun(spans, calls, c, FALSE)
           o == calls[c].outer
           cbArgs == r.calls[c].cbArgs
       IN IF r.calls[c].cbCalls = calls[c].cbCalls
          THEN spans' = r.spans /\ calls' = r.calls
          ELSE IF calls[o].path = "callback"
               THEN /\ spans' = r.spans
                    /\ calls' = callerCallbackInvoked(r.calls, o, cbArgs)
               ELSE LET both == synthCallbackInvoked(r.spans, r.calls, o, cbArgs)
                    IN spans' = both.spans /\ calls' = both.calls
    /\ UNCHANGED <<adaptVars, apiVars, optedInPII, defaultTracerProvider, activeSpan>>

Root(fs, f) == IF fs[f].wraps = 0 THEN f ELSE Root(fs, fs[f].wraps)

\* The exclude options, the functions the adapters are applied to directly
\* (the run method and what wraps it), the arguments the adapted methods are
\* called with and what their originals report.
ExcludeLists ==
    {{}, {<<"close">>}, {<<"promise">>}, {<<"close">>, <<"promise">>}}
AdaptTargets == {f \in 1..Len(fns) : fns[Root(fns, f)].name = <<OriginalName>>}
AdaptedArgLists == {<<Str("x")>>, <<Str("x"), Fn("done")>>}
AdaptedCbArgLists == {<<Err("boom")>>, <<Null, Str("r1")>>}
AdaptedOutcomes ==
    {[state |-> "fulfilled", value |-> <<Str("r1")>>, bare |-> FALSE],
     [state |-> "rejected", value |-> <<Err("boom")>>, bare |-> TRUE]}

\* ------------------------- context manager, active span and the no-op span

\* lines 349-351: context.setGlobalContextManager registers the manager unless
\* one is registered already; it does not enable it.
SetGlobalContextManager(manager) ==
    /\ globalContextManager' = IF globalContextManager = NoManager
                               THEN manager ELSE globalContextManager
    /\ UNCHANGED <<adaptVars, enabledManagers, held, lastOpts, optedInPII,
                   defaultTracerProvider, activeSpan, spans, calls>>

\* A slip that would insist on an enabled manager, and raise otherwise.
disableEnabledManagerOnly(manager) ==
    IF manager \in enabledManagers
    THEN [globalContextManager |-> NoManager,
          enabledManagers |-> (enabledManagers \ {manager}) \ {globalContextManager},
          activeSpan |-> 0, raised |-> FALSE]
    ELSE [globalContextManager |-> globalContextManager,
          enabledManagers |-> enabledManagers,
          activeSpan |-> activeSpan, raised |-> TRUE]

\* lines 353-356: manager.disable(), then context.disable(), which disables
\* the registered manager and removes the registration; neither raises. With
\* no manager, context.active() is the root context: no span is active.
disableContextAndManager(manager) ==
    [globalContextManager |-> NoManager,
     enabledManagers |-> (enabledManagers \ {manager}) \ {globalContextManager},
     activeSpan |-> 0, raised |-> FALSE]

DisableContextAndManager(manager) ==
    /\ LET r == disableContextAndManager(manager)
       IN /\ globalContextManager' = r.globalContextManager
          /\ enabledManagers' = r.enabledManagers
          /\ activeSpan' = r.activeSpan
    /\ UNCHANGED <<adaptVars, held, lastOpts, optedInPII,
                   defaultTracerProvider, spans, calls>>

\* What the operations of a span return to their caller.
This == "this"
Void == "undefined"
INVALID_SPAN_CONTEXT == "INVALID_SPAN_CONTEXT"
SpanOps ==
    {"spanContext", "setAttribute", "setAttributes", "addEvent", "addLink",
     "addLinks", "setStatus", "end", "isRecording", "recordException",
     "updateName"}

\* A slip that would make every operation of the no-op span return undefined.
noopSpanAllVoid(op) == Void

\* lines 372-414: class noopSpan has no fields; an operation is its result.
noopSpan(op) ==
    CASE op = "spanContext" -> INVALID_SPAN_CONTEXT
      [] op = "isRecording" -> "false"
      [] op \in {"end", "recordException"} -> Void
      [] OTHER -> This

NothingHeld == [kind |-> "none", span |-> 0, op |-> "none", ret |-> "none"]

\* A slip that would hand out a no-op span whatever the context holds.
getNoopSpanAlways ==
    [kind |-> "noop", span |-> 0, op |-> "none", ret |-> "none"]

\* lines 364-370: trace.getActiveSpan() is the span of context.active().
getActiveOrNoopSpan ==
    IF activeSpan # 0
    THEN [kind |-> "span", span |-> activeSpan, op |-> "none", ret |-> "none"]
    ELSE [kind |-> "noop", span |-> 0, op |-> "none", ret |-> "none"]

\* Frequently called code asks for the span to annotate.
GetActiveOrNoopSpan ==
    /\ held' = getActiveOrNoopSpan
    /\ UNCHANGED <<adaptVars, globalContextManager, enabledManagers, lastOpts,
                   optedInPII, defaultTracerProvider, activeSpan, spans, calls>>

\* The holder of a no-op span invokes one of its operations.
NoopSpanOp(op) ==
    /\ held.kind = "noop"
    /\ held' = [held EXCEPT !.op = op, !.ret = noopSpan(op)]
    /\ UNCHANGED <<adaptVars, globalContextManager, enabledManagers, lastOpts,
                   optedInPII, defaultTracerProvider, activeSpan, spans, calls>>

\* The holder of the active span annotates it or asks whether it records.
ActiveSpanOp(op, key, value) ==
    /\ held.kind = "span"
    /\ op \in {"setAttribute", "isRecording"}
    /\ held' = [held EXCEPT !.op = op,
                            !.ret = IF op = "setAttribute" THEN This
                                    ELSE IF spans[held.span].endCalls = 0
                                         THEN "true" ELSE "false"]
    /\ spans' = IF op = "setAttribute"
                THEN [spans EXCEPT ![held.span] = SpanSetAttribute(@, key, value)]
                ELSE spans
    /\ UNCHANGED <<adaptVars, globalContextManager, enabledManagers, lastOpts,
                   optedInPII, defaultTracerProvider, activeSpan, calls>>

\* An options bundle: a provider or none, the extended-tracing flag or none.
\* flip tells one application of a bundle from the next.
Unset == "unset"
Opts(p, e) == [tracerProvider |-> p, enableExtendedTracing |-> e]
OptsBundles == {Opts(p, e) : p \in Providers \cup {Unset}, e \in ExtFlags}
NoOpts == [opts |-> Opts(Unset, Unset), flip |-> FALSE]

\* A slip that would opt out when the bundle carries no flag.
applyObservabilityOptionsResetting(opts) ==
    [defaultTracerProvider |-> IF opts.tracerProvider # Unset
                               THEN opts.tracerProvider
                               ELSE defaultTracerProvider,
     optedInPII |-> (opts.enableExtendedTracing = "true")]

\* setTracerProvider(opts.tracerProvider) when the bundle carries a provider,
\* optInForSQLStatementOnSpans() when it carries the flag, set.
applyObservabilityOptions(opts) ==
    [defaultTracerProvider |-> IF opts.tracerProvider # Unset
                               THEN opts.tracerProvider
                               ELSE defaultTracerProvider,
     optedInPII |-> IF opts.enableExtendedTracing = "true"
                    THEN TRUE ELSE optedInPII]

ApplyObservabilityOptions(opts) ==
    /\ LET r == applyObservabilityOptions(opts)
       IN /\ defaultTracerProvider' = r.defaultTracerProvider
          /\ optedInPII' = r.optedInPII
    /\ lastOpts' = [opts |-> opts, flip |-> ~lastOpts.flip]
    /\ UNCHANGED <<adaptVars, globalContextManager, enabledManagers, held,
                   activeSpan, spans, calls>>

\* The application has constructed its context managers and registered one.
\* ------------------------------------------- recording and unsampled tracers
\* The same wrapped call is made in two worlds that differ only in the tracer:
\* in the first the tracer records (calls[1], spans[1]), in the second its
\* sampler is off or no provider is registered (calls[2], spans[2]), as in
\* observability-test/observability.ts lines 416-471. The original method
\* behaves the same in both: every step applies one input to both worlds.

\* The span exporter receives a span when it ends, if it recorded.
Exported(span) == span.recording /\ span.endCalls > 0

\* The second world's call: its span, if it has one, is spans[2].
InWorld2(call) == [call EXCEPT !.span = IF @ = 0 THEN 0 ELSE 2]

TwinPromisifyCall(impl, singular, args, sync, throws, ret) ==
    /\ calls = <<>>
    /\ spans = <<>>
    /\ LET on == promisifyWrapper(impl, singular, args, sync, throws, ret)
           off == promisifyWrapperOn(Unsampled(promisifySpan(impl)), impl,
                                     singular, args, sync, throws, ret)
       IN /\ spans' = <<on.span, off.span>>
          /\ calls' = <<on.call, InWorld2(off.call)>>
    /\ UNCHANGED <<adaptVars, apiVars, optedInPII, defaultTracerProvider, activeSpan>>

TwinCallbackifyCall(impl, args, throws) ==
    /\ calls = <<>>
    /\ spans = <<>>
    /\ LET r == callbackifyWrapper(impl, args, throws)
       IN /\ spans' = IF r.traced THEN <<r.span, Unsampled(r.span)>> ELSE <<>>
          /\ calls' = <<r.call, InWorld2(r.call)>>
    /\ UNCHANGED <<adaptVars, apiVars, optedInPII, defaultTracerProvider, activeSpan>>

TwinOriginalInvokesCallback(args) ==
    /\ Len(calls) = 2
    /\ calls[1].kind = "promisify"
    /\ calls[1].path = "promise"
    /\ calls[1].synthCalls < MaxCbCalls
    /\ LET on == synthCallbackInvoked(spans, calls, 1, args)
           both == synthCallbackInvoked(on.spans, on.calls, 2, args)
       IN spans' = both.spans /\ calls' = both.calls
    /\ UNCHANGED <<adaptVars, apiVars, optedInPII, defaultTracerProvider, activeSpan>>

TwinOriginalInvokesCallerCallback(args) ==
    /\ Len(calls) = 2
    /\ calls[1].kind = "promisify"
    /\ calls[1].path = "callback"
    /\ calls[1].pc = "running"
    /\ calls' = callerCallbackInvoked(callerCallbackInvoked(calls, 1, args),
                                      2, args)
    /\ UNCHANGED <<adaptVars, apiVars, optedInPII, defaultTracerProvider, activeSpan,
                   spans>>

TwinOriginalSettles(outcome) ==
    /\ Len(calls) = 2
    /\ calls[1].kind = "callbackify"
    /\ calls[1].promise.state = "pending"
    /\ calls' = originalSettled(originalSettled(calls, 1, outcome), 2, outcome)
    /\ UNCHANGED <<adaptVars, apiVars, optedInPII, defaultTracerProvider, activeSpan,
                   spans>>

TwinCallbackifyReaction(cbThrows) ==
    /\ Len(calls) = 2
    /\ calls[1].kind = "callbackify"
    /\ calls[1].pc = "settled"
    /\ LET on == reactionRun(spans, calls, 1, cbThrows)
           both == reactionRun(on.spans, on.calls, 2, cbThrows)
       IN spans' = both.spans /\ calls' = both.calls
    /\ UNCHANGED <<adaptVars, apiVars, optedInPII, defaultTracerProvider, activeSpan>>

\* ------------------------------------------------------ overlapping calls
\* Wrapped calls made while earlier wrapped calls are still in flight. Each
\* wrapper invocation has its own const span (instrument.ts:257 and 176, v1
\* 180-182 and 93-95), held by the closures it creates.
OverlapCbArgLists ==
    {<<Err("boom")>>, <<Str("timeout")>>, <<Null, Str("r1")>>}
OverlapOutcomes ==
    {[state |-> "rejected", value |-> <<Err("boom")>>, bare |-> TRUE],
     [state |-> "rejected", value |-> <<Str("timeout")>>, bare |-> TRUE],
     [state |-> "fulfilled", value |-> <<Str("r1")>>, bare |-> TRUE]}

InFlight(c) == calls[c].kind \in {"promisify", "callbackify"} /\ calls[c].pc # "done"

OverlappingPromisifyCall(impl) ==
    /\ Len(calls) < MaxOverlap
    /\ \A c \in 1..Len(calls) : InFlight(c)
    /\ LET r == promisifyWrapper(impl, FALSE, <<>>, <<>>, NoThrow, Undefined)
       IN /\ spans' = Append(spans, r.span)
          /\ calls' = Append(calls, r.call)
    /\ UNCHANGED <<adaptVars, apiVars, optedInPII, defaultTracerProvider, activeSpan>>

OverlappingCallbackifyCall(impl) ==
    /\ Len(calls) < MaxOverlap
    /\ \A c \in 1..Len(calls) : InFlight(c)
    /\ LET r == callbackifyWrapper(impl, <<Fn("done")>>, NoThrow)
       IN /\ spans' = Append(spans, r.span)
          /\ calls' = Append(calls, r.call)
    /\ UNCHANGED <<adaptVars, apiVars, optedInPII, defaultTracerProvider, activeSpan>>

Init ==
    /\ globalContextManager = "M1"
    /\ enabledManagers = Managers
    /\ held = NothingHeld
    /\ lastOpts = NoOpts
    /\ optedInPII \in BOOLEAN
    /\ defaultTracerProvider = NoProvider
    /\ activeSpan = 0
    /\ spans = <<>>
    /\ calls = <<>>
    /\ fns = InitialFns
    /\ prototype = InitialPrototype
    /\ lastAdapt = NoAdapt

Next ==
    \/ \E p \in Providers \cup {NoProvider} : SetTracerProvider(p)
    \/ OptInForSQLStatementOnSpans
    \/ OptOutOfSQLStatementOnSpans
    \/ \E n \in SpanNames, sql \in SqlArgs, tb \in TableArgs :
          StartTraceCall(n, sql, tb)
    \/ \E n \in SpanNames, e \in {"true", "false"}, work \in WorkFns :
          StartTraceWithWork(n, SqlObject("SELECT 1", e), work)
    \/ AppStartActiveSpan
    \/ \E c \in 1..Len(calls), n \in SpanNames :
          calls[c].first = "none" /\ NestedStartTraceCall(c, n)
    \/ \E c \in 1..Len(calls), err \in ErrVals :
          Len(spans) = 1 /\ ClientSetSpanError(c, TRUE, err)
    \/ \E c \in 1..Len(calls) :
          Len(spans) = 1 /\ ClientSetSpanError(c, FALSE, Err("boom"))
    \/ \E c \in 1..Len(calls) : CallerEndsSpan(c)
    \/ \E impl \in {"main", "v1"}, singular \in BOOLEAN, args \in ArgLists,
          sync \in SyncCbs, throws \in ThrowVals \cup {NoThrow},
          ret \in OriginalReturns :
          PromisifyCall(impl, singular, args, sync, throws, ret)
    \/ \E c \in 1..Len(calls), args \in CbArgLists :
          OriginalInvokesCallback(c, args)
    \/ \E c \in 1..Len(calls), args \in CbArgLists :
          OriginalInvokesCallerCallback(c, args)
    \/ \E impl \in {"main", "v1"}, args \in ArgLists,
          throws \in ThrowVals \cup {NoThrow} :
          CallbackifyCall(impl, args, throws)
    \/ \E c \in 1..Len(calls), outcome \in Fulfilments \cup Rejections :
          OriginalSettles(c, outcome)
    \/ \E c \in 1..Len(calls), cbThrows \in BOOLEAN :
          CallbackifyReaction(c, cbThrows)

Spec == Init /\ [][Next]_vars

\* The adaptation of a class and the calls of its adapted run method.
NextAdapt ==
    \/ \E f \in AdaptTargets, singular \in BOOLEAN, impl \in {"main", "v1"} :
          Promisify(f, singular, impl)
    \/ \E f \in AdaptTargets, impl \in {"main", "v1"} : Callbackify(f, impl)
    \/ \E exclude \in ExcludeLists, singular \in BOOLEAN, impl \in {"main", "v1"} :
          PromisifyAll(exclude, singular, impl)
    \/ \E exclude \in ExcludeLists, impl \in {"main", "v1"} :
          CallbackifyAll(exclude, impl)
    \/ \E g \in 1..Len(fns), args \in AdaptedArgLists :
          CallAdapted(g, args, <<>>, NoThrow, Undefined)
    \/ \E g \in 1..Len(fns), args \in AdaptedArgLists : CallStacked(g, args)
    \/ \E c \in 1..Len(calls) : StackedSettles(c)
    \/ \E c \in 1..Len(calls) : StackedReaction(c)
    \/ \E c \in 1..Len(calls), args \in AdaptedCbArgLists :
          OriginalInvokesCallback(c, args)
    \/ \E c \in 1..Len(calls), args \in AdaptedCbArgLists :
          OriginalInvokesCallerCallback(c, args)
    \/ \E c \in 1..Len(calls), outcome \in AdaptedOutcomes :
          OriginalSettles(c, outcome)
    \/ \E c \in 1..Len(calls) : CallbackifyReaction(c, FALSE)

\* The configuration of the library, the context manager and the span that
\* annotating code asks for.
NextApi ==
    \/ \E p \in Providers \cup {NoProvider} : SetTracerProvider(p)
    \/ OptInForSQLStatementOnSpans
    \/ OptOutOfSQLStatementOnSpans
    \/ \E opts \in OptsBundles : ApplyObservabilityOptions(opts)
    \/ \E m \in Managers : SetGlobalContextManager(m)
    \/ \E m \in Managers : DisableContextAndManager(m)
    \/ AppStartActiveSpan
    \/ \E n \in SpanNames : StartTraceCall(n, NoSql, Undefined)
    \/ GetActiveOrNoopSpan
    \/ \E op \in SpanOps : NoopSpanOp(op)
    \/ \E op \in SpanOps : ActiveSpanOp(op, SEMATTRS_DB_SQL_TABLE, Str("Singers"))

SpecApi == Init /\ [][NextApi]_vars

\* One wrapped call under a recording and under an unsampled tracer.
NextSampling ==
    \/ \E p \in Providers \cup {NoProvider} : SetTracerProvider(p)
    \/ \E impl \in {"main", "v1"}, singular \in BOOLEAN, args \in ArgLists,
          sync \in SyncCbs, throws \in ThrowVals \cup {NoThrow},
          ret \in OriginalReturns :
          TwinPromisifyCall(impl, singular, args, sync, throws, ret)
    \/ \E args \in CbArgLists : TwinOriginalInvokesCallback(args)
    \/ \E args \in CbArgLists : TwinOriginalInvokesCallerCallback(args)
    \/ \E impl \in {"main", "v1"}, args \in ArgLists,
          throws \in ThrowVals \cup {NoThrow} :
          TwinCallbackifyCall(impl, args, throws)
    \/ \E outcome \in Fulfilments \cup Rejections : TwinOriginalSettles(outcome)
    \/ \E cbThrows \in BOOLEAN : TwinCallbackifyReaction(cbThrows)

SpecSampling == Init /\ [][NextSampling]_vars

\* Wrapped calls that overlap, their steps interleaved in every order.
NextOverlap ==
    \/ \E impl \in {"main", "v1"} : OverlappingPromisifyCall(impl)
    \/ \E impl \in {"main", "v1"} : OverlappingCallbackifyCall(impl)
    \/ \E c \in 1..Len(calls), args \in OverlapCbArgLists :
          OriginalInvokesCallback(c, args)
    \/ \E c \in 1..Len(calls), outcome \in OverlapOutcomes :
          OriginalSettles(c, outcome)
    \/ \E c \in 1..Len(calls) : CallbackifyReaction(c, FALSE)

SpecOverlap == Init /\ [][NextOverlap]_vars

\* The wrappers pass no SQL text to startTrace: the opt-in flag plays no part.
InitAdapt == Init /\ ~optedInPII

SpecAdapt == InitAdapt /\ [][NextAdapt]_vars

\* ------------------------------------------------------------------ claims

Calls == 1..Len(calls)
HasSpan(c) == calls[c].span # 0
SpanOf(c) == spans[calls[c].span]
Wrapped(c) == calls[c].kind \in {"promisify", "callbackify"}
Ended(span) == span.endCalls > 0
\* The step created a span with startTrace: the last of spans'.
Started == Len(spans') = Len(spans) + 1 /\ spans'[Len(spans')].via = "startTrace"
Fresh == spans'[Len(spans')]
HasAttr(span, key) == span.attributes[key] # Undefined
SqlSupplied(span) == span.req.sql.t # "undefined"

\* C1: a promisify-wrapped call made without a callback whose original fails
\* (a truthy error passed to the synthesized callback, or a synchronous
\* throw) has its span's status set to error with message err.toString(),
\* and its promise rejected with that same error.
C1_FailureMarksSpanAndRejects ==
    \A c \in Calls :
        (/\ calls[c].kind = "promisify"
         /\ calls[c].path = "promise"
         /\ calls[c].first \in {"err", "throw"})
        => /\ SpanOf(c).status =
                 [code |-> "ERROR", message |-> toString(calls[c].firstErr)]
           /\ calls[c].promise.state = "rejected"
           /\ calls[c].promise.value = <<calls[c].firstErr>>

\* C2: a callbackify-wrapped call made with a callback whose original's
\* promise rejected with err has, once the reaction ran, set the span's status
\* to error with message err.toString(), then ended the span, then invoked the
\* callback with err alone, in this order.
C2_RejectionStatusEndCallback ==
    \A c \in Calls :
        (/\ calls[c].kind = "callbackify"
         /\ calls[c].path = "traced"
         /\ calls[c].promise.state = "rejected"
         /\ calls[c].pc = "done")
        => /\ calls[c].trace = <<"setStatus", "end", "cb">>
           /\ SpanOf(c).status =
                 [code |-> "ERROR",
                  message |-> toString(calls[c].promise.value[1])]
           /\ calls[c].cbCalls = 1
           /\ calls[c].cbArgs = calls[c].promise.value

\* C3: no span a wrapper opened is ended more than once.
C3_EndedAtMostOnce ==
    \A c \in Calls : (Wrapped(c) /\ HasSpan(c)) => SpanOf(c).endCalls <= 1

\* C4: once the operation of a wrapped call is over (its callback invoked,
\* its promise settled and reacted to, or an exception thrown), the span the
\* wrapper opened for it is ended.
C4_OverImpliesEnded ==
    \A c \in Calls :
        (Wrapped(c) /\ HasSpan(c) /\ calls[c].pc = "done") => Ended(SpanOf(c))

\* C5: a span startTrace creates carries db.statement if and only if SQL was
\* supplied and the global opt-in flag or the call's enableExtendedTracing flag
\* is true, and then its value is the SQL text supplied.
C5_StatementIffSqlAndEitherFlag ==
    [][Started =>
         /\ HasAttr(Fresh, SEMATTRS_DB_STATEMENT)
              <=> (SqlSupplied(Fresh) /\ (optedInPII \/ Fresh.req.sql.ext = "true"))
         /\ HasAttr(Fresh, SEMATTRS_DB_STATEMENT)
              => Fresh.attributes[SEMATTRS_DB_STATEMENT] = Str(Fresh.req.sql.sql)
      ]_vars

\* C6: when the call carries its own enableExtendedTracing flag, that flag
\* decides whether the span gets db.statement, whatever the global flag is.
C6_CallFlagDecides ==
    [][(Started /\ SqlSupplied(Fresh) /\ Fresh.req.sql.ext # "unset") =>
         (HasAttr(Fresh, SEMATTRS_DB_STATEMENT) <=> Fresh.req.sql.ext = "true")
      ]_vars

\* C7: a span startTrace creates carries db.sql.table if and only if a table
\* name was supplied, and then it equals that name, whatever the SQL text and
\* the opt-in flag are.
C7_TableIffSupplied ==
    \A i \in 1..Len(spans) :
        spans[i].via = "startTrace" =>
            /\ HasAttr(spans[i], SEMATTRS_DB_SQL_TABLE)
                 <=> spans[i].req.tableName # Undefined
            /\ HasAttr(spans[i], SEMATTRS_DB_SQL_TABLE)
                 => spans[i].attributes[SEMATTRS_DB_SQL_TABLE] = spans[i].req.tableName

\* A span with a table name and SQL text but no db.statement: the opt-in flag
\* was off when it was created.
C7_Witness ==
    \E i \in 1..Len(spans) :
        /\ spans[i].via = "startTrace"
        /\ spans[i].req.tableName = Str("Singers")
        /\ spans[i].attributes[SEMATTRS_DB_SQL_TABLE] = Str("Singers")
        /\ SqlSupplied(spans[i])
        /\ ~HasAttr(spans[i], SEMATTRS_DB_STATEMENT)

\* C8: every span startTrace creates carries db.system with the one value
\* 'google.cloud.spanner' from the first state in which the span exists,
\* whatever the SQL text, the table name, the opt-in flag and the provider are.
C8_SystemAlwaysSet ==
    \A i \in 1..Len(spans) :
        spans[i].via = "startTrace" =>
            spans[i].attributes[SEMATTRS_DB_SYSTEM] = Str("google.cloud.spanner")

\* A span of the provider set with setTracerProvider, created with SQL text
\* and no table name while the opt-in flag was on.
C8_Witness ==
    \E i \in 1..Len(spans) :
        /\ spans[i].via = "startTrace"
        /\ spans[i].tracer = "P1"
        /\ HasAttr(spans[i], SEMATTRS_DB_STATEMENT)
        /\ spans[i].req.tableName = Undefined
        /\ HasAttr(spans[i], SEMATTRS_DB_SYSTEM)

\* C9: the db.system attribute of every span the library creates is the
\* string 'spanner'.
C9_SystemIsSpanner ==
    \A i \in 1..Len(spans) :
        spans[i].via # "app" => spans[i].attributes[SEMATTRS_DB_SYSTEM] = Str("spanner")

\* C10: the span of a wrapped call whose original completed successfully never
\* has status error, before its end and from its end on.
C10_SuccessNeverError ==
    \A c \in Calls :
        (Wrapped(c) /\ HasSpan(c) /\ calls[c].first = "ok")
        => SpanOf(c).status.code \in {"UNSET", "OK"}

\* A promisify-wrapped call that succeeded, ended its span, and whose original
\* then invoked the callback again with an error.
C10_Witness ==
    \E c \in Calls :
        /\ Wrapped(c) /\ HasSpan(c)
        /\ calls[c].first = "ok"
        /\ Ended(SpanOf(c))
        /\ SpanOf(c).lateOps > 0

\* C11: a span created by startTrace while span S of the same call chain,
\* returned by an earlier startTrace, is not ended has S as its parent.
C11_ParentIsOpenSpanOfChain ==
    \A i \in 1..Len(spans) :
        (spans[i].via = "startTrace" /\ spans[i].req.within # 0)
        => spans[i].parent = spans[i].req.within

\* C12: the tracer that creates a span is the call's own tracer-provider
\* override when the call carries one, otherwise the default provider when one
\* is set, otherwise the global one.
C12_OverrideThenDefaultThenGlobal ==
    [][Started =>
         Fresh.tracer =
            IF Fresh.req.sql.tp # "unset" THEN Fresh.req.sql.tp
            ELSE IF defaultTracerProvider # NoProvider THEN defaultTracerProvider
            ELSE GlobalTracer
      ]_vars

\* C13: every span startTrace creates is created by the provider that is the
\* default at the moment of the call (the global one when none is set), also
\* when setTracerProvider was called after earlier spans were started, and a
\* span that exists stays with the tracer that created it.
C13_TracerResolvedAtEachCall ==
    [][/\ Started =>
            Fresh.tracer = IF defaultTracerProvider # NoProvider
                           THEN defaultTracerProvider
                           ELSE GlobalTracer
       /\ \A i \in 1..Len(spans) :
            /\ Len(spans') >= i
            /\ spans'[i].tracer = spans[i].tracer
      ]_vars

\* Two spans of one call chain, the first still open and created by the global
\* tracer, the second created by the provider set in between.
C13_Witness ==
    \E i, j \in 1..Len(spans) :
        /\ spans[i].via = "startTrace" /\ spans[j].via = "startTrace"
        /\ spans[j].req.within = i
        /\ ~Ended(spans[i])
        /\ spans[i].tracer = GlobalTracer
        /\ spans[j].tracer = "P1"
        /\ defaultTracerProvider = "P1"

\* The position of the last argument that is not undefined, 0 when none is.
LastDefined(args) ==
    IF \E i \in 1..Len(args) : args[i] # Undefined
    THEN CHOOSE i \in 1..Len(args) :
            /\ args[i] # Undefined
            /\ \A j \in (i + 1)..Len(args) : args[j] = Undefined
    ELSE 0
\* The last argument that is not undefined is a function.
CallbackGiven(args) ==
    LastDefined(args) > 0 /\ args[LastDefined(args)].t = "function"
\* The step made a wrapped call: the last of calls'.
Called == Len(calls') = Len(calls) + 1 /\ calls'[Len(calls')].kind # "startTrace"
NewCallMade == calls'[Len(calls')]

\* C14: a promisify-wrapped call whose last argument that is not undefined is
\* a function invokes the original once with the caller's arguments unchanged,
\* synthesizes no callback, creates no promise, and returns what the original
\* returns (or throws what it throws).
C14_ExplicitCallbackForwards ==
    \A c \in Calls :
        (calls[c].kind = "promisify" /\ CallbackGiven(calls[c].args))
        => /\ calls[c].path = "callback"
           /\ calls[c].origCalls = 1
           /\ calls[c].origArgs = calls[c].args
           /\ calls[c].synthCalls = 0
           /\ calls[c].promise = NoPromise
           /\ calls[c].returned = calls[c].origRet
           /\ calls[c].thrown = NoThrow <=> calls[c].returned # NoReturn

\* A call f(done, undefined) whose original returned a value and later invoked
\* the caller's callback.
C14_Witness ==
    \E c \in Calls :
        /\ calls[c].kind = "promisify"
        /\ calls[c].args = <<Fn("done"), Undefined>>
        /\ calls[c].origArgs = <<Fn("done"), Undefined>>
        /\ calls[c].returned = Str("returned")
        /\ calls[c].cbCalls = 1
        /\ calls[c].pc = "done"

\* C15: a callbackify-wrapped call whose last argument is not a function
\* creates no span and returns what the original returns for the same
\* arguments.
C15_NoCallbackNoSpan ==
    [][(/\ Called
        /\ NewCallMade.kind = "callbackify"
        /\ (NewCallMade.args = <<>>
               \/ NewCallMade.args[Len(NewCallMade.args)].t # "function"))
       => /\ spans' = spans
          /\ NewCallMade.span = 0
          /\ NewCallMade.origCalls = 1
          /\ NewCallMade.origArgs = NewCallMade.args
          /\ NewCallMade.returned = NewCallMade.origRet
          /\ NewCallMade.thrown = NoThrow <=> NewCallMade.returned = PromiseOf("original")
      ]_vars

\* A call g('x') that got the original's promise back, now fulfilled, while
\* the only span is the application's own.
C15_Witness ==
    \E c \in Calls :
        /\ calls[c].kind = "callbackify"
        /\ calls[c].args = <<Str("x")>>
        /\ calls[c].returned = PromiseOf("original")
        /\ calls[c].promise.state = "fulfilled"
        /\ calls[c].span = 0
        /\ Len(spans) = 1 /\ spans[1].via = "app"

\* C16: in a callbackify-wrapped call made with a trailing callback the
\* original receives the arguments without the callback, and once its promise
\* fulfilled with r and the reaction ran, the callback was invoked once with
\* null followed by the elements of r (an array) or by r (not an array).
C16_FulfilmentSpread ==
    \A c \in Calls :
        (/\ calls[c].kind = "callbackify"
         /\ calls[c].args # <<>>
         /\ calls[c].args[Len(calls[c].args)].t = "function")
        => /\ calls[c].origArgs = SubSeq(calls[c].args, 1, Len(calls[c].args) - 1)
           /\ (calls[c].promise.state = "fulfilled" /\ calls[c].pc = "done")
              => /\ calls[c].cbCalls = 1
                 /\ calls[c].cbArgs = <<Null>> \o calls[c].promise.value

\* A call g('x', done) whose original fulfilled with ['r1', 'r2'].
C16_Witness ==
    \E c \in Calls :
        /\ calls[c].kind = "callbackify"
        /\ calls[c].args = <<Str("x"), Fn("done")>>
        /\ calls[c].origArgs = <<Str("x")>>
        /\ calls[c].promise.state = "fulfilled"
        /\ ~calls[c].promise.bare
        /\ calls[c].cbArgs = <<Null, Str("r1"), Str("r2")>>

\* C17: a promisify-wrapped call without a callback whose original first
\* reports success with values v1..vn has its promise fulfilled with the bare
\* v1 when singular is set and n = 1, with the list [v1..vn] otherwise.
C17_SingularResolution ==
    \A c \in Calls :
        (/\ calls[c].kind = "promisify"
         /\ calls[c].path = "promise"
         /\ calls[c].first = "ok")
        => LET vs == IF calls[c].firstArgs = <<>> THEN <<>>
                     ELSE Tail(calls[c].firstArgs)
           IN /\ calls[c].promise.state = "fulfilled"
              /\ calls[c].promise.bare <=> (calls[c].singular /\ Len(vs) = 1)
              /\ calls[c].promise.value = vs

\* A singular call whose original reported two values: the promise holds the
\* list of both.
C17_Witness ==
    \E c \in Calls :
        /\ calls[c].kind = "promisify"
        /\ calls[c].singular
        /\ calls[c].firstArgs = <<Null, Str("r1"), Str("r2")>>
        /\ calls[c].promise = [state |-> "fulfilled",
                               value |-> <<Str("r1"), Str("r2")>>, bare |-> FALSE]

\* C18: a promisify-wrapped call in which no callback is found invokes the
\* original with the caller's arguments up to the last one that is not
\* undefined, undefined ones before it kept in place, followed by one
\* synthesized callback.
C18_PeelTrailingUndefined ==
    \A c \in Calls :
        (calls[c].kind = "promisify" /\ ~CallbackGiven(calls[c].args))
        => /\ calls[c].path = "promise"
           /\ calls[c].origCalls = 1
           /\ calls[c].origArgs =
                 SubSeq(calls[c].args, 1, LastDefined(calls[c].args))
                 \o <<Fn("synthesized")>>

\* Calls f(undefined, 'x') and f('x', undefined): the first keeps its
\* undefined, the second loses it.
C18_Witness ==
    \E c \in Calls :
        /\ calls[c].kind = "promisify"
        /\ \/ /\ calls[c].args = <<Undefined, Str("x")>>
              /\ calls[c].origArgs = <<Undefined, Str("x"), Fn("synthesized")>>
           \/ /\ calls[c].args = <<Str("x"), Undefined>>
              /\ calls[c].origArgs = <<Str("x"), Fn("synthesized")>>

\* The step was a call of an adapter.
AdaptStep == lastAdapt' # lastAdapt \/ fns' # fns \/ prototype' # prototype

\* C19: promisify applied to a function promisify returned gives back that
\* same function and creates none, likewise callbackify; a call through a
\* function adapted this way opens at most one span, exactly one when it is a
\* promisify wrapper.
C19_AdaptTwiceIsOnce ==
    [][/\ (/\ AdaptStep
           /\ lastAdapt'.op \in {"promisify", "callbackify"}
           /\ lastAdapt'.again)
          => /\ lastAdapt'.result = lastAdapt'.arg
             /\ fns' = fns
             /\ prototype' = prototype
       /\ (Called /\ NewCallMade.fn # 0)
          => /\ Len(spans') <= Len(spans) + 1
             /\ fns[NewCallMade.fn].layer = "promisify"
                  => Len(spans') = Len(spans) + 1
      ]_vars

\* promisify was applied to a promisify wrapper and gave it back; a call
\* through it has opened one span.
C19_Witness ==
    /\ lastAdapt.op = "promisify"
    /\ lastAdapt.again
    /\ lastAdapt.result = lastAdapt.arg
    /\ Len(calls) = 1
    /\ calls[1].fn = lastAdapt.result
    /\ Len(spans) = 1

\* C20: promisifyAll called on a class whose selected methods are all
\* promisify wrappers already (callbackifyAll: callbackify wrappers) leaves
\* every property of the prototype and every function as it was.
C20_AdaptAllAgainIsNoOp ==
    [][(/\ AdaptStep
        /\ lastAdapt'.op \in {"promisifyAll", "callbackifyAll"}
        /\ lastAdapt'.again)
       => /\ prototype' = prototype
          /\ fns' = fns
      ]_vars

\* callbackifyAll ran again on a class it had adapted: run and close are
\* callbackify wrappers, the other properties are what they were.
C20_Witness ==
    /\ lastAdapt.op = "callbackifyAll"
    /\ lastAdapt.again
    /\ lastAdapt.exclude = {<<"promise">>}
    /\ fns[prototype[<<"run">>]].layer = "callbackify"
    /\ fns[prototype[<<"close">>]].layer = "callbackify"
    /\ prototype[<<"run", "Stream">>] = InitialPrototype[<<"run", "Stream">>]

\* The step is a call of promisifyAll or callbackifyAll; AllLayer is its kind.
AllStep == AdaptStep /\ lastAdapt'.op \in {"promisifyAll", "callbackifyAll"}
AllLayer == IF lastAdapt'.op = "promisifyAll" THEN "promisify" ELSE "callbackify"
\* The function that is the value of property n carries the adapter's marker.
AlreadyAdapted(n) ==
    IF AllLayer = "promisify"
    THEN fns[prototype[n]].promisified_
    ELSE fns[prototype[n]].callbackified_
\* Property n was replaced by a wrapper of the adapter around its old value.
Replaced(n) ==
    /\ prototype'[n] # prototype[n]
    /\ fns'[prototype'[n]].layer = AllLayer
    /\ fns'[prototype'[n]].wraps = prototype[n]
Contains(name, piece) == \E i \in 1..Len(name) : name[i] = piece

\* C21: callbackifyAll and promisifyAll replace exactly the own prototype
\* properties that are functions, whose name is not in options.exclude, does
\* not end in 'Stream', does not start with '_', is not 'constructor', and
\* that are not already adapted; every other property is left unchanged.
C21_ReplacesExactlyByPrefixSuffix ==
    [][AllStep =>
        \A n \in PropNames :
            IF /\ prototype[n] # NotFunction
               /\ n \notin lastAdapt'.exclude
               /\ n[Len(n)] # "Stream"
               /\ n[1] # "_"
               /\ n # <<"constructor">>
               /\ ~AlreadyAdapted(n)
            THEN Replaced(n)
            ELSE prototype'[n] = prototype[n]]_vars

\* C21 as amended: the properties replaced are exactly the functions whose
\* name is not in options.exclude, contains neither 'Stream' nor '_' anywhere,
\* is not 'constructor', for promisifyAll does not end in 'promise', and that
\* do not carry the adapter's marker; every other property is left unchanged.
C21_ReplacesExactlyByContents ==
    [][AllStep =>
        \A n \in PropNames :
            IF /\ prototype[n] # NotFunction
               /\ n \notin lastAdapt'.exclude
               /\ ~Contains(n, "Stream")
               /\ ~Contains(n, "_")
               /\ n # <<"constructor">>
               /\ (AllLayer = "promisify" => n[Len(n)] # "promise")
               /\ ~AlreadyAdapted(n)
            THEN Replaced(n)
            ELSE prototype'[n] = prototype[n]]_vars

\* promisifyAll has replaced run and close, and left request_, getStreamInfo,
\* promise, runStream, _flush, the constructor and batchSize as they were.
C21_Witness ==
    /\ lastAdapt.op = "promisifyAll"
    /\ lastAdapt.exclude = {}
    /\ fns[prototype[<<"run">>]].layer = "promisify"
    /\ fns[prototype[<<"close">>]].layer = "promisify"
    /\ \A n \in PropNames \ {<<"run">>, <<"close">>} :
          prototype[n] = InitialPrototype[n]

\* The state outside the span handed out by getActiveOrNoopSpan.
Observable ==
    <<optedInPII, defaultTracerProvider, activeSpan, spans, calls, adaptVars,
      globalContextManager, enabledManagers, lastOpts>>
MutatingOps ==
    {"setAttribute", "setAttributes", "addEvent", "setStatus", "updateName",
     "recordException", "end"}

\* C22: getActiveOrNoopSpan returns the active span itself when a span is
\* active in the current context; when none is active it returns a span whose
\* isRecording() is false and on which setAttribute, setAttributes, addEvent,
\* setStatus, updateName, recordException and end change no observable state.
C22_ActiveOrNoop ==
    [][held' # held =>
        IF held'.op = "none"
        THEN IF activeSpan # 0
             THEN held'.kind = "span" /\ held'.span = activeSpan
             ELSE held'.kind = "noop"
        ELSE held.kind = "noop" =>
                /\ held'.kind = "noop"
                /\ held'.op = "isRecording" => held'.ret = "false"
                /\ held'.op \in MutatingOps => Observable' = Observable
    ]_vars

\* No span is active although startTrace has opened one: the span handed out
\* is a no-op span, and its end() has been called while the span of startTrace
\* stays open.
C22_Witness ==
    /\ held.kind = "noop"
    /\ held.op = "end"
    /\ activeSpan = 0
    /\ \E i \in 1..Len(spans) : spans[i].via = "startTrace" /\ spans[i].endCalls = 0

\* C23: every operation of the no-op span returns the no-op span itself,
\* except isRecording, which returns false, and spanContext, which returns the
\* invalid sentinel context; this covers setAttribute, setAttributes, addEvent,
\* setStatus, updateName, recordException and end.
C23_EveryOperationReturnsItself ==
    (held.kind = "noop" /\ held.op # "none") =>
        held.ret = CASE held.op = "isRecording" -> "false"
                     [] held.op = "spanContext" -> INVALID_SPAN_CONTEXT
                     [] OTHER -> This

\* C23 as amended: setAttribute, setAttributes, addEvent, addLink, addLinks,
\* setStatus and updateName return the no-op span itself; isRecording returns
\* false; spanContext returns the invalid sentinel context; end and
\* recordException return nothing.
C23_ChainableOperationsReturnItself ==
    (held.kind = "noop" /\ held.op # "none") =>
        /\ held.op \in {"setAttribute", "setAttributes", "addEvent", "addLink",
                        "addLinks", "setStatus", "updateName"} => held.ret = This
        /\ held.op = "isRecording" => held.ret = "false"
        /\ held.op = "spanContext" => held.ret = INVALID_SPAN_CONTEXT
        /\ held.op \in {"end", "recordException"} => held.ret = Void

\* setStatus has been called on a no-op span and returned the span.
C23_Witness ==
    held.kind = "noop" /\ held.op = "setStatus" /\ held.ret = This

ContextState ==
    [globalContextManager |-> globalContextManager,
     enabledManagers |-> enabledManagers, activeSpan |-> activeSpan]
ContextOf(r) ==
    [globalContextManager |-> r.globalContextManager,
     enabledManagers |-> r.enabledManagers, activeSpan |-> r.activeSpan]

\* C29: disableContextAndManager is idempotent and total: calling it a second
\* time in a row, or when no context manager is registered, leaves the state
\* as after the first call and raises no error.
C29_DisableIdempotentAndTotal ==
    [][\A m \in Managers :
          /\ ~disableContextAndManager(m).raised
          /\ ~disableContextAndManager(m)'.raised
          /\ (ContextState' # ContextState
               /\ ContextState' = ContextOf(disableContextAndManager(m)))
              => ContextOf(disableContextAndManager(m)') = ContextState'
    ]_vars

\* disableContextAndManager was called with the registered manager while a
\* span was active: nothing is registered, the manager is disabled, no span is
\* active.
C29_Witness ==
    /\ globalContextManager = NoManager
    /\ enabledManagers = {"M2"}
    /\ activeSpan = 0
    /\ \E i \in 1..Len(spans) : spans[i].via = "app"
    /\ held.kind = "span"

\* C25: startTrace(name, config, work) invokes work exactly once with the span
\* it has just created and returns whatever work returns, unchanged, including
\* a pending asynchronous result.
C25_WorkInvokedOnceAndReturned ==
    \A c \in Calls :
        (calls[c].kind = "startTrace" /\ calls[c].args # <<>>) =>
            /\ calls[c].cbCalls = 1
            /\ calls[c].returned = WorkReturn(calls[c].args[1])

\* C27: in every reachable state, a span whose status is error carries a
\* non-empty message, for every error value (Error object or string, the empty
\* string and an Error with an empty message included) that a wrapped
\* operation can report.
C27_ErrorStatusHasMessage ==
    \A i \in 1..Len(spans) :
        spans[i].status.code = "ERROR" => spans[i].status.message # ""

\* C26: setSpanError(span, err) sets the span's status to error with message
\* err.toString() when both arguments are present; when either is absent it
\* leaves the span entirely unchanged; in no case does it end the span or
\* raise an error.
C26_SetSpanErrorWhenBothPresent ==
    [][\A c \in Calls :
          (calls[c].kind = "startTrace" /\ calls[c].first = "none"
           /\ calls'[c].first # "none") =>
              LET err == calls'[c].firstErr
                  before == spans[calls[c].span]
                  after == spans'[calls[c].span]
              IN IF calls'[c].first = "span" /\ err # Undefined
                 THEN after = [before EXCEPT !.status =
                                 [code |-> "ERROR", message |-> toString(err)]]
                 ELSE after = before
    ]_vars

\* C28: no wrapper sets an attribute or a status on a span after that span has
\* been ended: in every run of a promisify- or callbackify-wrapped call, each
\* setAttribute and setStatus on the call's span precedes the span's end, also
\* when the original invokes the synthesized callback more than once.
C28_NothingSetAfterEnd ==
    \A c \in Calls :
        (Wrapped(c) /\ HasSpan(c)) => SpanOf(c).lateOps = 0

\* C24: a promisify- or callbackify-wrapped call gives its caller the same
\* outcome (the same invocation of the original, returned value, exception,
\* promise state and value, callback invocations and arguments, in the same
\* order) whether the tracer records or produces unsampled spans, and in the
\* latter case the span holds nothing and is not exported.
Outcome(call) == [call EXCEPT !.span = 0]

C24_TracingInvisibleToControlFlow ==
    Len(calls) = 2 =>
        /\ Outcome(calls[1]) = Outcome(calls[2])
        /\ Len(spans) = 2 =>
              /\ ~Exported(spans[2])
              /\ spans[2].status = StatusUnset
              /\ \A k \in AttrKeys : spans[2].attributes[k] = Undefined
              /\ spans[2].endCalls = spans[1].endCalls

\* Both worlds have reported a rejection to the caller; the recording world
\* exported its span with the error, the other world exported nothing.
C24_Witness ==
    /\ Len(calls) = 2
    /\ Len(spans) = 2
    /\ calls[1].pc = "done"
    /\ calls[2].first = "err"
    /\ \/ calls[2].promise.state = "rejected"
       \/ calls[2].cbCalls > 0
    /\ Exported(spans[1])
    /\ spans[1].status.code = "ERROR"
    /\ ~Exported(spans[2])

\* C37: startTrace never ends the span it creates: the span of a startTrace
\* call is open when startTrace returns and stays open until the caller ends
\* it.
C37_StartTraceLeavesSpanOpen ==
    \A c \in Calls :
        (calls[c].kind = "startTrace" /\ calls[c].pc = "open")
        => ~Ended(SpanOf(c))

\* startTrace has returned a span with its attributes set, still open.
C37_Witness ==
    \E c \in Calls :
        /\ calls[c].kind = "startTrace"
        /\ calls[c].pc = "open"
        /\ calls[c].returned = TheSpan
        /\ HasAttr(SpanOf(c), SEMATTRS_DB_SYSTEM)
        /\ ~Ended(SpanOf(c))

\* C31: each call to startTrace creates exactly one span, of kind client,
\* named 'cloud.google.com/nodejs/spanner/' followed by the given operation
\* name; the span of a promisify-wrapped call is named after the target
\* method, 'Spanner.' followed by the original method's name.
SpanNameRoot == "cloud.google.com/nodejs/spanner/"

C31_OneClientSpanNamedAfterOperation ==
    [][(Len(calls') = Len(calls) + 1 /\ NewCallMade.kind \in {"startTrace", "promisify"})
       => /\ Len(spans') = Len(spans) + 1
          /\ NewCallMade.span = Len(spans')
          /\ NewCallMade.kind = "startTrace" =>
                /\ Fresh.kind = "CLIENT"
                /\ Fresh.name = SpanNameRoot \o Fresh.req.name
                /\ Fresh.req.name \in SpanNames
          /\ (NewCallMade.kind = "promisify" /\ NewCallMade.impl = "main") =>
                /\ Fresh.kind = "CLIENT"
                /\ Fresh.name = SpanNameRoot \o "Spanner." \o OriginalName
          /\ (NewCallMade.kind = "promisify" /\ NewCallMade.impl = "v1") =>
                Fresh.name = "cloud.google.com/nodejs/" \o "Spanner."
                             \o OriginalName \o ".promisify"]_vars

\* A promisify-wrapped call has been made: its one span is a client span
\* named after run.
C31_Witness ==
    /\ Len(calls) = 1
    /\ Len(spans) = 1
    /\ calls[1].kind = "promisify"
    /\ calls[1].impl = "main"
    /\ spans[1].kind = "CLIENT"
    /\ spans[1].name = "cloud.google.com/nodejs/spanner/Spanner.run"

EndPrecedesCb(trace) ==
    \A j \in 1..Len(trace) :
        trace[j] = "cb" => \E i \in 1..(j - 1) : trace[i] = "end"

C33_EndedWhenOutcomeKnown ==
    \A c \in Calls :
        /\ (calls[c].kind = "callbackify" /\ calls[c].path = "traced"
              /\ calls[c].cbCalls > 0)
           => (EndPrecedesCb(calls[c].trace) /\ Ended(SpanOf(c)))
        /\ (calls[c].kind = "promisify" /\ calls[c].path = "promise"
              /\ calls[c].promise.state # "pending")
           => Ended(SpanOf(c))

\* C35: for a callbackify-wrapped call made with a trailing callback, the
\* callback is not invoked inside the wrapper call nor before the original's
\* promise has settled; once the promise has settled and its reaction has
\* run, the callback has been invoked exactly once, also when it threw.
C35_CallbackOnceAfterSettlement ==
    \A c \in Calls :
        (calls[c].kind = "callbackify" /\ calls[c].path = "traced") =>
            /\ calls[c].cbCalls <= 1
            /\ calls[c].cbCalls > 0 =>
                  (calls[c].promise.state \in {"fulfilled", "rejected"}
                   /\ calls[c].pc = "done")
            /\ (calls[c].pc = "done" /\ calls[c].thrown = NoThrow)
                  => calls[c].cbCalls = 1
            /\ calls[c].cbThrew => calls[c].cbCalls = 1

\* C32: with overlapping wrapped calls, a step that is not a step of call c
\* leaves the span of c as it is, so the completion of one call sets status
\* on and ends only its own span; a span has error status only with the
\* message of the first error of its own call, and is ended only when its own
\* call has completed.
C32_CompletionTouchesOwnSpanOnly ==
    [][/\ \A c \in Calls :
            calls'[c] = calls[c] => spans'[calls[c].span] = spans[calls[c].span]
       /\ \A c \in 1..Len(calls') :
            LET span == spans'[calls'[c].span]
            IN /\ span.status.code = "ERROR" =>
                    /\ calls'[c].first = "err"
                    /\ span.status.message = toString(calls'[c].firstErr)
               /\ Ended(span) => calls'[c].pc = "done"
      ]_vars

\* Two calls overlapped and each failed with its own error: each span is
\* ended and carries the message of its own call's error.
C32_Witness ==
    /\ Len(calls) = 2
    /\ calls[1].kind # calls[2].kind
    /\ calls[1].pc = "done"
    /\ calls[2].pc = "done"
    /\ calls[1].firstErr = Str("timeout")
    /\ calls[2].firstErr = Err("boom")
    /\ \A c \in Calls :
          /\ Ended(SpanOf(c))
          /\ SpanOf(c).status = [code |-> "ERROR",
                                 message |-> toString(calls[c].firstErr)]

\* C34: a call of a method that promisifyAll and callbackifyAll have both
\* adapted, in either order, made with or without a trailing callback, opens
\* at most one span.
AdaptedByBoth(g) ==
    /\ g # 0
    /\ fns[g].layer \in {"promisify", "callbackify"}
    /\ fns[g].wraps # 0
    /\ fns[fns[g].wraps].layer \in {"promisify", "callbackify"} \ {fns[g].layer}

C34_AtMostOneSpanPerCall ==
    (/\ calls # <<>>
     /\ calls[1].fn = prototype[<<OriginalName>>]
     /\ AdaptedByBoth(calls[1].fn))
    => Len(spans) <= 1

====
